---- MODULE Spec2Model ----
(***************************************************************************)
(* Model of the synthcollect export/import subsystem: the JSON storage     *)
(* layer (src/lib/storage), the import service (src/lib/services) and the  *)
(* streaming export with its progress store (src/app/api/sessions/...).    *)
(*                                                                         *)
(* Strings that the code takes apart (filenames, archive paths) are        *)
(* sequences of tokens, "." and "/" and "_" being tokens of their own, so  *)
(* that lastIndexOf('.'), the /^\/+/ strip and the `${name}_${k}${ext}`    *)
(* template are computed as the code computes them.                        *)
(***************************************************************************)
EXTENDS Integers, Sequences, FiniteSets, TLC

VARIABLES
    metadata,     \* session id -> sequence of image records (metadata.json, insertion order)
    mapping,      \* image id -> session id (image-mapping.json)
    sessions,     \* session id -> session_config.json, or NoSession
    files,        \* the absolute paths that hold a file on disk
    nextId,       \* source of fresh image ids (nanoid)
    nextSession,  \* source of fresh session ids (nanoid)
    imp,          \* the importData call: options, bundle, loop position, counters
    result,       \* the ImportResult of the importData call
    progress,     \* progressStore: the entry of the exported session and user
    exp,          \* the export request: its position, mode, validation results, response
    procs,        \* the file processors of the batch in flight
    metrics,      \* ExportMetrics of the export
    archive,      \* the archiver instance: entries appended, metadata.json listing, state
    sse,          \* the progress stream (GET export-progress) of the session and user
    heal,         \* the last path-healing operation: an image GET or a recovery pass
    calls         \* storage calls under way step by step, each with what it has read

storageVars == <<metadata, mapping, sessions, files, nextId, nextSession>>
importVars == <<imp, result>>
exportVars == <<progress, exp, procs, metrics, archive, sse>>
healVars == <<heal, calls>>

----------------------------------------------------------------------------
(* Bounds of the model. *)

MaxIds == 4        \* image records ever created by uploads
MaxBundle == 2     \* entries in one bundle
MaxExport == 3     \* image records in the exported session
BatchSize == 2     \* stands for EXPORT_CONFIG.BATCH_SIZE (10 in the source)
MaxTimers == 2     \* teardown timers one progress stream has pending at a time
MaxRuns == 2       \* runs of the offline recovery pass
MaxCalls == 2      \* storage calls that overlap in time

----------------------------------------------------------------------------
(* Strings as token sequences. *)

DigitChar == <<"0", "1", "2", "3", "4", "5", "6", "7", "8", "9">>

RECURSIVE Dec(_)
\* `${counter}`: the decimal digits of a natural number
Dec(n) == IF n < 10 THEN <<DigitChar[n + 1]>>
          ELSE Dec(n \div 10) \o <<DigitChar[(n % 10) + 1]>>

\* String.prototype.lastIndexOf for a one-character needle: 0-based, -1 when absent
LastIndexOf(s, c) ==
    IF \E i \in 1..Len(s) : s[i] = c
    THEN (CHOOSE i \in 1..Len(s) : s[i] = c /\ \A j \in (i + 1)..Len(s) : s[j] # c) - 1
    ELSE -1

\* String.prototype.substring(from) and substring(0, to) with 0-based indices
SubstringFrom(s, from) == SubSeq(s, from + 1, Len(s))
SubstringTo(s, to) == SubSeq(s, 1, to)

RECURSIVE StripLeadingSlashes(_)
\* file_path.replace(/^\/+/, '')
StripLeadingSlashes(p) ==
    IF Len(p) > 0 /\ p[1] = "/" THEN StripLeadingSlashes(Tail(p)) ELSE p

A_PNG == <<"a", ".", "png">>
B_PNG == <<"b", ".", "png">>
C_PNG == <<"c", ".", "png">>
A_1_PNG == <<"a", "_", "1", ".", "png">>
EmptyName == <<>>

\* `images/${filename}`
ImagesPath(filename) == <<"images", "/">> \o filename

----------------------------------------------------------------------------
(* Paths on disk. *)

\* path.join(process.cwd(), 'data', 'sessions', sessionId, 'images', filename)
AbsoluteFilePath(sessionId, filename) ==
    [root |-> "cwd", session |-> sessionId, dir |-> "images", file |-> filename]

\* A path is a record: `root` is what it starts from ("cwd" the project root,
\* "rel" nothing: a relative path, "/" the filesystem root, "old" another
\* installation's root, "cwd/cwd" and "cwd/old" an absolute path joined under the
\* project root, "deep" anything further down) and `dir` what follows the root
\* ("images" data/sessions/<id>/images, "session" data/sessions/<id>, "data"
\* data, "archive" images, "data/archive" data/images).
IsAbsolute(p) == p.root # "rel"

----------------------------------------------------------------------------
(* The storage layer: JsonStorage. *)

NoSession == [exists |-> FALSE, created_by |-> "", image_count |-> 0, name |-> <<>>]

Store == [metadata |-> metadata, mapping |-> mapping, sessions |-> sessions,
          files |-> files, nextId |-> nextId, nextSession |-> nextSession]

SetStore(st) ==
    /\ metadata' = st.metadata
    /\ mapping' = st.mapping
    /\ sessions' = st.sessions
    /\ files' = st.files
    /\ nextId' = st.nextId
    /\ nextSession' = st.nextSession

\* readMetadata: the session's records, none when the file is absent
ReadMetadata(st, sessionId) ==
    IF sessionId \in DOMAIN st.metadata THEN st.metadata[sessionId] ELSE <<>>

\* getSession
GetSession(st, sessionId) ==
    IF sessionId \in DOMAIN st.sessions THEN st.sessions[sessionId] ELSE NoSession

\* listImages: Object.values(metadata.images), in insertion order
ListImages(st, sessionId) == ReadMetadata(st, sessionId)

\* the image_count createImage and deleteImage write after their own mutation
CountAfterCreate(old, images) == Len(images)
\* (mutant: deleteImage leaves the count it found)
CountAfterDeleteStale(old, images) == old
CountAfterDelete(old, images) == Len(images)

\* updateSession(id, { image_count })
UpdateSessionCount(st, sessionId, count) ==
    IF GetSession(st, sessionId).exists
    THEN [st EXCEPT !.sessions[sessionId].image_count = count]
    ELSE st

\* createSession
CreateSession(st, userId, name) ==
    LET id == st.nextSession IN
    [st EXCEPT !.sessions = (id :> [exists |-> TRUE, created_by |-> userId,
                                    image_count |-> 0, name |-> name]) @@ st.sessions,
               !.nextSession = id + 1]

\* createImage: append the record, map its id, refresh the session's image_count
CreateImage(st, data) ==
    LET id == st.nextId
        image == [id |-> id] @@ data
        sid == data.session_id
        images == Append(ReadMetadata(st, sid), image)
        written == [st EXCEPT !.metadata = (sid :> images) @@ st.metadata,
                              !.mapping = (id :> sid) @@ st.mapping,
                              !.nextId = id + 1]
    IN UpdateSessionCount(written, sid,
                          CountAfterCreate(GetSession(st, sid).image_count, images))

\* deleteImage throws 'Image not found' before it changes anything
DeleteImageThrows(st, id) ==
    \/ id \notin DOMAIN st.mapping
    \/ ~ \E k \in 1..Len(ReadMetadata(st, st.mapping[id])) :
            ReadMetadata(st, st.mapping[id])[k].id = id

\* deleteImage: unlink the file, drop the record and its mapping, refresh image_count
DeleteImage(st, id) ==
    LET sid == st.mapping[id]
        old == ReadMetadata(st, sid)
        image == old[CHOOSE k \in 1..Len(old) : old[k].id = id]
        images == SelectSeq(old, LAMBDA r : r.id # id)
        written == [st EXCEPT !.files = st.files \ {image.file_path},
                              !.metadata = (sid :> images) @@ st.metadata,
                              !.mapping = [i \in (DOMAIN st.mapping) \ {id} |-> st.mapping[i]]]
    IN UpdateSessionCount(written, sid,
                          CountAfterDelete(GetSession(st, sid).image_count, images))

----------------------------------------------------------------------------
(* Bundles and import options: the inputs of importData. *)

Users == {"u1", "u2"}
Importer == "u1"

Entry(fn, orig, prompt, gen, fp, scores, rating, tags, notes) ==
    [filename |-> fn, original_filename |-> orig, prompt |-> prompt,
     generator_used |-> gen, file_path |-> fp, ai_scores |-> scores,
     quality_rating |-> rating, tags |-> tags, notes |-> notes]

\* Optional fields are a sequence of zero (absent) or one (present) value.
Absent == <<>>
Some(v) == <<v>>

\* The image entries a bundle is built from: same stored name, same original
\* name, same prompt and generator, an empty stored name, a name that is
\* already a renamed one, a path with a leading slash, a missing path, a
\* generator outside the schema's enum, a rating outside 1..5.
Entries ==
    { Entry(A_PNG, "oa", "p1", "dalle", ImagesPath(A_PNG),
            Some({<<"aesthetic", 7>>}), Some(4), Some(<<"t">>), Some("n")),
      Entry(A_PNG, "ob", "p2", "other", <<"/">> \o ImagesPath(A_PNG),
            Absent, Absent, Absent, Absent),
      Entry(B_PNG, "oa", "", "dalle", ImagesPath(B_PNG),
            Some({}), Some(1), Absent, Some("")),
      Entry(C_PNG, "oc", "p0", "midjourney", <<>>,
            Absent, Absent, Some(<<>>), Absent),
      Entry(EmptyName, "oe", "p3", "midjourney", ImagesPath(EmptyName),
            Absent, Absent, Absent, Absent),
      Entry(B_PNG, "of", "p4", "firefly", ImagesPath(B_PNG),
            Absent, Absent, Absent, Absent),
      Entry(C_PNG, "og", "p5", "dalle", ImagesPath(C_PNG),
            Absent, Some(9), Absent, Absent) }

Generators == {"midjourney", "dalle", "stable-diffusion", "other"}

\* ImportMetadataSchema on one image object: the fields the entries vary in
\* (generator_used in the enum, quality_rating absent or within 1..5)
ImageAccepted(d) ==
    /\ d.generator_used \in Generators
    /\ d.quality_rating # Absent => d.quality_rating[1] >= 1 /\ d.quality_rating[1] <= 5

\* (mutant: the parse result is not enforced)
SchemaAcceptsAnything(bundle) == TRUE
\* ImportMetadataSchema.parse(metadata) does not throw
SchemaAccepts(bundle) == \A k \in 1..Len(bundle.images) : ImageAccepted(bundle.images[k])

ImageLists == UNION { [1..n -> Entries] : n \in 0..MaxBundle }

\* the archive paths an entry list names
NamedPaths(images) ==
    { StripLeadingSlashes(images[k].file_path) :
        k \in { j \in 1..Len(images) : images[j].file_path # <<>> } }

\* An uploaded file: its name decides the kind; a zip holds metadata.json
\* (or not) and any of the image files its metadata names.
Bundles ==
    { [kind |-> "json", hasMetadata |-> TRUE, images |-> im, zipFiles |-> {}] :
        im \in ImageLists }
    \cup UNION { { [kind |-> "zip", hasMetadata |-> TRUE, images |-> im, zipFiles |-> z] :
                    z \in SUBSET NamedPaths(im) } : im \in ImageLists }
    \cup { [kind |-> k, hasMetadata |-> FALSE, images |-> <<>>, zipFiles |-> {}] :
        k \in {"zip", "txt"} }

Strategies == {"skip", "replace", "rename"}

----------------------------------------------------------------------------
(* The import service: ImportService. *)

Idle ==
    [pc |-> "idle", bundle |-> [kind |-> "json", hasMetadata |-> TRUE,
                                images |-> <<>>, zipFiles |-> {}],
     options |-> [mode |-> "new", targetSessionId |-> 0, duplicateStrategy |-> "skip"],
     sessionId |-> 0, existing |-> <<>>, pre |-> <<>>, preFiles |-> {},
     i |-> 1, imported |-> 0, skipped |-> 0, errors |-> <<>>,
     faults |-> 0]   \* write or storage faults the environment injected (bookkeeping)

\* createNewSession: `${sessionName} (Imported)`
ImportedName == <<"Imported Session", " (Imported)">>

\* no path-healing operation has run
NoHeal == [op |-> "none", id |-> 0, response |-> "", used |-> 0, stored |-> <<>>,
           candidates |-> <<>>, faults |-> {}, filesBefore |-> {}, runs |-> 0,
           fixed |-> 0]

NoResult == [success |-> FALSE, sessionId |-> 0, imported |-> 0, skipped |-> 0,
             errors |-> <<>>]

Error(kind, file, detail) == [kind |-> kind, file |-> file, detail |-> detail]

\* Array.prototype.find over the positions S that satisfy the test: the first
\* of them, 0 when there is none
FindFirst(S) == IF S = {} THEN 0 ELSE CHOOSE k \in S : \A j \in S : k <= j

\* the three tests of checkDuplicate, as the positions of `existing` that pass
SameFilename(importing, existing) ==
    { k \in 1..Len(existing) : existing[k].filename = importing.filename }
SameOriginal(importing, existing) ==
    { k \in 1..Len(existing) : existing[k].original_filename = importing.original_filename }
SamePrompt(importing, existing) ==
    { k \in 1..Len(existing) : /\ existing[k].prompt = importing.prompt
                               /\ existing[k].generator_used = importing.generator_used
                               /\ existing[k].prompt # "" /\ importing.prompt # "" }

\* (mutant: the original-name check is missing)
CheckDuplicateNoOriginal(importing, existing) ==
    LET sameFilename == FindFirst(SameFilename(importing, existing))
        samePrompt == FindFirst(SamePrompt(importing, existing))
    IN IF sameFilename # 0 THEN sameFilename ELSE samePrompt

\* checkDuplicate: same stored name, else same original name, else same
\* non-empty prompt and generator; the index in `existing`, 0 for null
CheckDuplicate(importing, existing) ==
    LET sameFilename == FindFirst(SameFilename(importing, existing))
        sameOriginal == FindFirst(SameOriginal(importing, existing))
        samePrompt == FindFirst(SamePrompt(importing, existing))
    IN IF sameFilename # 0 THEN sameFilename
       ELSE IF sameOriginal # 0 THEN sameOriginal
       ELSE samePrompt

RECURSIVE UniqueLoop(_, _, _, _, _)
\* the while loop of generateUniqueFilename
UniqueLoop(newFilename, counter, name, ext, existing) ==
    IF \E k \in 1..Len(existing) : existing[k].filename = newFilename
    THEN UniqueLoop(name \o <<"_">> \o Dec(counter) \o ext, counter + 1, name, ext, existing)
    ELSE newFilename

\* (mutant: the suffix goes after the extension)
GenerateUniqueFilenameAfterExt(filename, existing) ==
    UniqueLoop(filename, 1, filename, <<>>, existing)

\* generateUniqueFilename
GenerateUniqueFilename(filename, existing) ==
    LET lastDotIndex == LastIndexOf(filename, ".")
        name == IF lastDotIndex > -1 THEN SubstringTo(filename, lastDotIndex) ELSE filename
        ext == IF lastDotIndex > -1 THEN SubstringFrom(filename, lastDotIndex) ELSE <<>>
    IN UniqueLoop(filename, 1, name, ext, existing)

\* `x || default` on an optional field
OrDefault(opt, default) == IF opt = Absent THEN default ELSE opt[1]

\* the record processImages hands to storage.createImage
NewImageData(d, sessionId, newFilename, userId) ==
    [session_id |-> sessionId,
     filename |-> newFilename,
     original_filename |-> d.original_filename,  \* non-empty here, so `|| newFilename` is idle
     file_path |-> AbsoluteFilePath(sessionId, newFilename),
     prompt |-> d.prompt,
     generator_used |-> d.generator_used,
     ai_scores |-> OrDefault(d.ai_scores, {}),
     quality_rating |-> d.quality_rating,
     tags |-> OrDefault(d.tags, <<>>),
     notes |-> IF d.notes = Absent \/ d.notes = Some("") THEN "" ELSE d.notes[1],
     uploaded_by |-> userId]

\* What the environment does to one entry's file write and record write.
IOOutcomes == {"ok", "writefail", "storefail"}

\* One pass of the for loop of processImages over entry d: the storage and
\* the counters after it. `st` is the storage before, `im` the import state.
\* (mutant: the entry is skipped without its error string)
SkipEntrySilently(st, im, errs) ==
    [st |-> st, imported |-> im.imported, skipped |-> im.skipped + 1,
     errors |-> im.errors, fault |-> FALSE]
SkipEntry(st, im, errs) ==
    [st |-> st, imported |-> im.imported, skipped |-> im.skipped + 1,
     errors |-> im.errors \o errs, fault |-> FALSE]

\* the tail of the loop body, from the filename choice to createImage; `st`
\* already holds the effect of a 'replace' deletion
ExtractAndCreate(st, im, d, io) ==
    LET isZip == im.bundle.kind = "zip"
        newFilename ==
            IF im.options.duplicateStrategy = "rename" /\ im.options.mode = "merge"
            THEN GenerateUniqueFilename(d.filename, im.existing)
            ELSE d.filename
        absoluteFilePath == AbsoluteFilePath(im.sessionId, newFilename)
        metadataPath == StripLeadingSlashes(d.file_path)
        failed(msg) == <<Error("failed", d.original_filename, <<msg>>)>>
        stWritten == IF isZip THEN [st EXCEPT !.files = st.files \cup {absoluteFilePath}]
                     ELSE st
    IN IF isZip /\ d.file_path = <<>>
         THEN SkipEntry(st, im, <<>>)
       ELSE IF isZip /\ metadataPath \notin im.bundle.zipFiles
         THEN SkipEntry(st, im, <<Error("not_in_zip", d.original_filename, metadataPath)>>)
       ELSE IF isZip /\ io = "writefail"
         THEN [SkipEntry(st, im, failed("write")) EXCEPT !.fault = TRUE]
       ELSE IF io = "storefail"
         THEN [SkipEntry(stWritten, im, failed("storage")) EXCEPT !.fault = TRUE]
       ELSE [st |-> CreateImage(stWritten,
                                NewImageData(d, im.sessionId, newFilename, Importer)),
             imported |-> im.imported + 1, skipped |-> im.skipped,
             errors |-> im.errors, fault |-> FALSE]

ProcessImage(st, im, d, io) ==
    LET duplicate == IF im.options.mode = "merge"
                     THEN CheckDuplicate(d, im.existing) ELSE 0
        strategy == im.options.duplicateStrategy
    IN IF d.filename = <<>> \/ d.original_filename = ""
         THEN SkipEntry(st, im, <<>>)
       ELSE IF duplicate # 0 /\ strategy = "skip"
         THEN SkipEntry(st, im, <<>>)
       ELSE IF duplicate # 0 /\ strategy = "replace"
         THEN IF DeleteImageThrows(st, im.existing[duplicate].id)
              THEN SkipEntry(st, im,
                             <<Error("failed", d.original_filename, <<"Image not found">>)>>)
              ELSE ExtractAndCreate(DeleteImage(st, im.existing[duplicate].id), im, d, io)
       ELSE ExtractAndCreate(st, im, d, io)

\* the ImportResult of a completed loop, and of the catch block of importData
SuccessResult(im) ==
    [success |-> TRUE, sessionId |-> im.sessionId, imported |-> im.imported,
     skipped |-> im.skipped, errors |-> im.errors]

FailureResult(errs) ==
    [success |-> FALSE, sessionId |-> 0, imported |-> 0,
     skipped |-> 0,   \* this.progress.skipped, which nothing ever sets
     errors |-> errs]

\* importData up to the loop: decode, resolve the target session, preload the
\* existing records. A throw here ends the call in the catch block.
ImportStart(bundle, options) ==
    /\ imp.pc = "idle"
    /\ LET fatal(msg) ==
               /\ imp' = [Idle EXCEPT !.pc = "done", !.bundle = bundle, !.options = options,
                                      !.pre = ListImages(Store, options.targetSessionId),
                                      !.preFiles = files]
               /\ result' = FailureResult(<<Error("fatal", "", <<msg>>)>>)
               /\ UNCHANGED storageVars
               /\ UNCHANGED <<exportVars, healVars>>
           target == GetSession(Store, options.targetSessionId)
           st == IF options.mode = "new" THEN CreateSession(Store, Importer, ImportedName)
                 ELSE Store
           sessionId == IF options.mode = "new" THEN nextSession
                        ELSE options.targetSessionId
       IN IF bundle.kind \notin {"json", "zip"}
            THEN fatal("Unsupported file type")
          ELSE IF ~bundle.hasMetadata
            THEN fatal("metadata.json not found in ZIP")
          ELSE IF ~SchemaAccepts(bundle)
            THEN fatal("ZodError")
          ELSE IF options.mode = "merge"
                  /\ (~target.exists \/ target.created_by # Importer)
            THEN fatal("Invalid target session")
          ELSE /\ SetStore(st)
               /\ imp' = [Idle EXCEPT
                      !.pc = "loop", !.bundle = bundle, !.options = options,
                      !.sessionId = sessionId,
                      !.existing = IF options.mode = "merge"
                                   THEN ListImages(st, sessionId) ELSE <<>>,
                      !.pre = ListImages(st, sessionId),
                      !.preFiles = files]
               /\ result' = NoResult
               /\ UNCHANGED <<exportVars, healVars>>

\* one iteration of the for loop of processImages
ImportEntry(io) ==
    /\ imp.pc = "loop"
    /\ imp.i <= Len(imp.bundle.images)
    /\ LET out == ProcessImage(Store, imp, imp.bundle.images[imp.i], io) IN
       /\ SetStore(out.st)
       /\ imp' = [imp EXCEPT !.i = imp.i + 1, !.imported = out.imported,
                             !.skipped = out.skipped, !.errors = out.errors,
                             !.faults = imp.faults + (IF out.fault THEN 1 ELSE 0)]
    /\ UNCHANGED <<result, exportVars, healVars>>

\* the loop is over: importData returns the success result
ImportFinish ==
    /\ imp.pc = "loop"
    /\ imp.i > Len(imp.bundle.images)
    /\ imp' = [imp EXCEPT !.pc = "done"]
    /\ result' = SuccessResult(imp)
    /\ UNCHANGED <<storageVars, exportVars, healVars>>

----------------------------------------------------------------------------
(* Requests that reach the storage layer directly. *)

\* generateFileName: `img_${timestamp}.${ext}`, the upload's clock reading
\* standing for the timestamp
GenerateFileName(clock) == <<"img", "_">> \o Dec(clock) \o <<".", "png">>

\* the storage after the upload handler wrote the file and created the record
Uploaded(st, sessionId, prompt) ==
    LET fileName == GenerateFileName(st.nextId)
        filePath == AbsoluteFilePath(sessionId, fileName)
        data == [session_id |-> sessionId, filename |-> fileName,
                 original_filename |-> "up", file_path |-> filePath,
                 prompt |-> prompt, generator_used |-> "other",
                 ai_scores |-> {}, quality_rating |-> Absent,
                 tags |-> <<>>, notes |-> "", uploaded_by |-> Importer]
    IN CreateImage([st EXCEPT !.files = st.files \cup {filePath}], data)

\* POST /api/sessions/[sessionId]/images on an owned session
Upload(sessionId, prompt) ==
    /\ nextId <= MaxIds
    /\ GetSession(Store, sessionId).exists
    /\ GetSession(Store, sessionId).created_by = Importer
    /\ SetStore(Uploaded(Store, sessionId, prompt))
    /\ UNCHANGED <<importVars, exportVars, healVars>>

\* DELETE /api/images/[imageId] on an image of an owned session
Delete(id) ==
    /\ id \in DOMAIN mapping
    /\ GetSession(Store, mapping[id]).created_by = Importer
    /\ ~DeleteImageThrows(Store, id)
    /\ SetStore(DeleteImage(Store, id))
    /\ UNCHANGED <<importVars, exportVars, healVars>>

----------------------------------------------------------------------------
(* The progress store: ProgressStoreManager. *)

\* a field of Partial<ExportProgressData> that the update does not carry
Undefined == -1

NoProgress ==
    [present |-> FALSE, status |-> "", totalImages |-> Undefined,
     processedImages |-> Undefined, failedImages |-> Undefined,
     percentage |-> 0, error |-> FALSE]

Update(status, total, processed, failed, percentage, error) ==
    [status |-> status, totalImages |-> total, processedImages |-> processed,
     failedImages |-> failed, percentage |-> percentage, error |-> error]

Terminal == {"complete", "error"}

\* Math.round(num / den) for num >= 0, den > 0
Round(num, den) == (2 * num + den) \div (2 * den)

Min(a, b) == IF a <= b THEN a ELSE b

\* `...existing, ...update` for one numeric field
Spread(old, new) == IF new # Undefined THEN new ELSE old

\* the percentage updateProgress computes, which replaces the one the update carries
StoredPercentage(update) ==
    IF update.totalImages # Undefined /\ update.totalImages # 0
    THEN Round(100 * (IF update.processedImages = Undefined THEN 0
                      ELSE update.processedImages),
               update.totalImages)
    ELSE 0

\* ProgressStoreManager.updateProgress: the entry it stores
UpdateProgress(existing, update) ==
    [present |-> TRUE,
     status |-> update.status,
     totalImages |-> Spread(existing.totalImages, update.totalImages),
     processedImages |-> Spread(existing.processedImages, update.processedImages),
     failedImages |-> Spread(existing.failedImages, update.failedImages),
     percentage |-> StoredPercentage(update),
     error |-> existing.error \/ update.error]

\* ProgressStoreManager.cleanup: entries older than an hour or terminal are
\* dropped. No handler, timer or module of the repository calls it.
Cleanup(entry, olderThanAnHour) ==
    IF entry.present /\ (olderThanAnHour \/ entry.status \in Terminal)
    THEN NoProgress ELSE entry

\* ExportProgressReporter.updateProgress: POST the update to the progress
\* route, which stores it; a failed request is logged and dropped
Publish(update, delivered) ==
    progress' = IF delivered THEN UpdateProgress(progress, update) ELSE progress

----------------------------------------------------------------------------
(* The export request: POST /api/sessions/[sessionId]/export. *)

ExportSession == 1

MAX_RETRY_ATTEMPTS == 3

\* stat results of the image files: no file, or its size in bytes
Missing == -1
MaxFileBytes == 50 * 1024 * 1024
FileSizes == {Missing, 0, 1024, MaxFileBytes}

\* (mutant: a file of exactly 50 MB is accepted)
ValidateImageFileInclusive(size) ==
    IF size = Missing
    THEN [exists |-> FALSE, size |-> 0, isValid |-> FALSE]
    ELSE [exists |-> TRUE, size |-> size, isValid |-> size > 0 /\ size <= MaxFileBytes]

\* validateImageFile
ValidateImageFile(size) ==
    IF size = Missing
    THEN [exists |-> FALSE, size |-> 0, isValid |-> FALSE]
    ELSE [exists |-> TRUE, size |-> size, isValid |-> size > 0 /\ size < MaxFileBytes]

ExportModes == {"json", "full", "csv"}

NoExport ==
    [pc |-> "idle", mode |-> "", sizes |-> <<>>, valid |-> <<>>, invalid |-> 0,
     batch |-> 0, response |-> "none",
     overdue |-> FALSE,   \* TIMEOUT_MS have passed since the request came in
     continueOnError |-> TRUE]   \* EXPORT_CONFIG.CONTINUE_ON_ERROR, as shipped

NoMetrics == [processedFiles |-> 0, failedFiles |-> 0]

NoArchive == [state |-> "none", listed |-> <<>>, entries |-> <<>>]

NoStream ==
    [connected |-> FALSE, open |-> FALSE, interval |-> FALSE, timers |-> 0,
     closeErrors |-> 0, lastSent |-> "", aborted |-> FALSE, expired |-> FALSE]

ExportIdle ==
    /\ progress = NoProgress
    /\ exp = NoExport
    /\ procs = <<>>
    /\ metrics = NoMetrics
    /\ archive = NoArchive
    /\ sse = NoStream

\* storage.listImages(sessionId) of the exported session
Images == ListImages(Store, ExportSession)

MetadataEntry == <<"metadata.json">>

\* (mutant: the quotient is rounded down)
TotalBatchesFloor(n, b) == n \div b
\* Math.ceil(n / b)
TotalBatches(n, b) == (n + b - 1) \div b

\* images.slice(i * batchSize, Math.min((i + 1) * batchSize, images.length))
Batch(items, i, b) == SubSeq(items, i * b + 1, Min((i + 1) * b, Len(items)))

\* Math.round(Math.min(95, 10 + (processedSoFar / totalValidImages) * 85))
FilePercentage(processedSoFar, totalValidImages) ==
    Min(95, Round(10 * totalValidImages + 85 * processedSoFar, totalValidImages))

OtherVarsUnchanged == UNCHANGED <<storageVars, importVars, healVars>>

\* POST: the owner asks for an export; 'starting' is published
ExportPost(mode, delivered) ==
    /\ exp.pc = "idle"
    /\ GetSession(Store, ExportSession).exists
    /\ GetSession(Store, ExportSession).created_by = Importer
    /\ Publish(Update("starting", 0, 0, 0, 0, FALSE), delivered)
    /\ exp' = [exp EXCEPT !.pc = "listed", !.mode = mode]
    /\ UNCHANGED <<procs, metrics, archive, sse>>
    /\ OtherVarsUnchanged

\* POST: the session has no image
ExportNoImages(delivered) ==
    /\ exp.pc = "listed"
    /\ Len(Images) = 0
    /\ Publish(Update("error", Undefined, Undefined, Undefined, Undefined, TRUE), delivered)
    /\ exp' = [exp EXCEPT !.pc = "done", !.response = "400"]
    /\ UNCHANGED <<procs, metrics, archive, sse>>
    /\ OtherVarsUnchanged

\* POST: 'validating' is published and the mode decides the handler
ExportDispatch(delivered) ==
    /\ exp.pc = "listed"
    /\ Len(Images) > 0
    /\ Publish(Update("validating", Len(Images), 0, 0, 0, FALSE), delivered)
    /\ exp' = [exp EXCEPT !.pc = IF exp.mode \in {"json", "full"} THEN exp.mode
                                 ELSE "badmode"]
    /\ UNCHANGED <<procs, metrics, archive, sse>>
    /\ OtherVarsUnchanged

\* POST: neither "json" nor "full"
ExportInvalidMode(delivered) ==
    /\ exp.pc = "badmode"
    /\ Publish(Update("error", Undefined, Undefined, Undefined, Undefined, TRUE), delivered)
    /\ exp' = [exp EXCEPT !.pc = "done", !.response = "400"]
    /\ UNCHANGED <<procs, metrics, archive, sse>>
    /\ OtherVarsUnchanged

\* handleJsonExport: 'processing' at 50
JsonProcessing(delivered) ==
    /\ exp.pc = "json"
    /\ Publish(Update("processing", Undefined, Undefined, Undefined, 50, FALSE), delivered)
    /\ exp' = [exp EXCEPT !.pc = "jsondoc"]
    /\ UNCHANGED <<procs, metrics, archive, sse>>
    /\ OtherVarsUnchanged

\* handleJsonExport: 'complete' at 100 and the JSON bundle is the response
JsonComplete(delivered) ==
    /\ exp.pc = "jsondoc"
    /\ Publish(Update("complete", Undefined, Undefined, Undefined, 100, FALSE), delivered)
    /\ exp' = [exp EXCEPT !.pc = "done", !.response = "json"]
    /\ UNCHANGED <<procs, metrics, archive, sse>>
    /\ OtherVarsUnchanged

\* handleStreamingZipExport: 'validating' at 5, then every file is validated
ZipValidate(delivered) ==
    /\ exp.pc = "full"
    /\ Publish(Update("validating", Undefined, Undefined, Undefined, 5, FALSE), delivered)
    /\ LET all == [k \in 1..Len(Images) |-> k]
           isValid(k) == ValidateImageFile(exp.sizes[k]).isValid
           validImages == SelectSeq(all, isValid)
           invalidImages == SelectSeq(all, LAMBDA k : ~isValid(k))
       IN exp' = [exp EXCEPT !.valid = validImages, !.invalid = Len(invalidImages),
                             !.pc = IF Len(validImages) = 0 THEN "novalid"
                                    ELSE "validated"]
    /\ UNCHANGED <<procs, metrics, archive, sse>>
    /\ OtherVarsUnchanged

\* handleStreamingZipExport: no valid image, 'error' is published and it throws
ZipNoValid(delivered) ==
    /\ exp.pc = "novalid"
    /\ Publish(Update("error", Undefined, Undefined, Undefined, Undefined, TRUE), delivered)
    /\ exp' = [exp EXCEPT !.pc = "catch"]
    /\ UNCHANGED <<procs, metrics, archive, sse>>
    /\ OtherVarsUnchanged

\* handleStreamingZipExport: 'processing' at 10, the archiver is created and
\* metadata.json, listing every valid image, is the first entry appended
ZipBegin(delivered) ==
    /\ exp.pc = "validated"
    /\ Publish(Update("processing", Len(exp.valid), 0, exp.invalid, 10, FALSE), delivered)
    /\ archive' = [state |-> "open",
                   listed |-> [k \in 1..Len(exp.valid) |-> Images[exp.valid[k]].filename],
                   entries |-> <<MetadataEntry>>]
    /\ exp' = [exp EXCEPT !.pc = "batch", !.batch = 0]
    /\ UNCHANGED <<procs, metrics, sse>>
    /\ OtherVarsUnchanged

\* processImagesBatched and processBatchWithProgress: the processors of the
\* next batch all start, each with its first read under way
BatchStart ==
    /\ exp.pc = "batch"
    /\ exp.batch < TotalBatches(Len(exp.valid), BatchSize)
    /\ LET batch == Batch(exp.valid, exp.batch, BatchSize)
       IN procs' = [k \in 1..Len(batch) |->
                       [image |-> batch[k], pc |-> "read", attempts |-> 0, delay |-> 0,
                        sent |-> Update("", Undefined, Undefined, Undefined, Undefined, FALSE)]]
    /\ exp' = [exp EXCEPT !.pc = "await"]
    /\ UNCHANGED <<progress, metrics, archive, sse>>
    /\ OtherVarsUnchanged

\* (mutant: the wait grows by 100 ms per failed attempt)
BackoffDelayLinear(attempts) == attempts * 100
\* Math.pow(2, attempts) * 100, in ms
BackoffDelay(attempts) == (2 ^ attempts) * 100

\* safeReadFile: one readFile attempt of processor k settles
ReadFile(k, ok) ==
    /\ exp.pc = "await"
    /\ k \in DOMAIN procs
    /\ procs[k].pc = "read"
    /\ LET attempts == procs[k].attempts + 1 IN
       IF ok
       THEN /\ metrics' = [metrics EXCEPT !.processedFiles = @ + 1]
            /\ procs' = [procs EXCEPT ![k].pc = "append"]
       ELSE IF attempts >= MAX_RETRY_ATTEMPTS
       THEN IF exp.continueOnError
            THEN \* recordFailed, and safeReadFile returns null: nothing is appended
                 /\ metrics' = [metrics EXCEPT !.failedFiles = @ + 1]
                 /\ procs' = [procs EXCEPT ![k].pc = "done", ![k].attempts = attempts]
            ELSE \* recordFailed, and safeReadFile throws into the processor's
                 \* catch block, which calls recordFailed and throws again:
                 \* the processor's promise is rejected
                 /\ metrics' = [metrics EXCEPT !.failedFiles = @ + 1 + 1]
                 /\ procs' = [procs EXCEPT ![k].pc = "rejected", ![k].attempts = attempts]
       ELSE \* the backoff timer is armed before the next attempt
            /\ procs' = [procs EXCEPT ![k].attempts = attempts, ![k].pc = "backoff",
                                      ![k].delay = BackoffDelay(attempts)]
            /\ UNCHANGED metrics
    /\ UNCHANGED <<progress, exp, archive, sse>>
    /\ OtherVarsUnchanged

\* safeReadFile: the backoff timer of processor k fires, the loop reads again
BackoffElapsed(k) ==
    /\ exp.pc = "await"
    /\ k \in DOMAIN procs
    /\ procs[k].pc = "backoff"
    /\ procs' = [procs EXCEPT ![k].pc = "read"]
    /\ UNCHANGED <<progress, exp, metrics, archive, sse>>
    /\ OtherVarsUnchanged

\* processor k has its buffer: it appends the entry and sends its update
AppendEntry(k) ==
    /\ exp.pc = "await"
    /\ k \in DOMAIN procs
    /\ procs[k].pc = "append"
    /\ archive' = [archive EXCEPT
                      !.entries = Append(@, ImagesPath(Images[procs[k].image].filename))]
    /\ LET processedSoFar == metrics.processedFiles
       IN procs' = [procs EXCEPT
              ![k].pc = "publish",
              ![k].sent = Update("processing", Undefined, processedSoFar, Undefined,
                                 FilePercentage(processedSoFar, Len(exp.valid)), FALSE)]
    /\ UNCHANGED <<progress, exp, metrics, sse>>
    /\ OtherVarsUnchanged

\* the progress request of processor k settles
DeliverProgress(k, delivered) ==
    /\ exp.pc = "await"
    /\ k \in DOMAIN procs
    /\ procs[k].pc = "publish"
    /\ Publish(procs[k].sent, delivered)
    /\ procs' = [procs EXCEPT ![k].pc = "done"]
    /\ UNCHANGED <<exp, metrics, archive, sse>>
    /\ OtherVarsUnchanged

\* Promise.allSettled(processors) resolves, whether the processors were
\* fulfilled or rejected: the batch is over
BatchEnd ==
    /\ exp.pc = "await"
    /\ \A k \in DOMAIN procs : procs[k].pc \in {"done", "rejected"}
    /\ procs' = <<>>
    /\ exp' = [exp EXCEPT !.pc = "batch", !.batch = exp.batch + 1]
    /\ UNCHANGED <<progress, metrics, archive, sse>>
    /\ OtherVarsUnchanged

\* handleStreamingZipExport: after the last batch 'complete' at 100 is published
PublishComplete(delivered) ==
    /\ exp.pc = "batch"
    /\ exp.batch >= TotalBatches(Len(exp.valid), BatchSize)
    /\ Publish(Update("complete", Undefined, Undefined, Undefined, 100, FALSE), delivered)
    /\ exp' = [exp EXCEPT !.pc = "finalize"]
    /\ UNCHANGED <<procs, metrics, archive, sse>>
    /\ OtherVarsUnchanged

\* await archive.finalize(): it resolves and the response is returned, or it
\* rejects into the catch block
Finalize(ok) ==
    /\ exp.pc = "finalize"
    /\ IF ok
       THEN /\ archive' = [archive EXCEPT !.state = "finalized"]
            /\ exp' = [exp EXCEPT !.pc = "done", !.response = "zip"]
       ELSE /\ archive' = [archive EXCEPT !.state = "failed"]
            /\ exp' = [exp EXCEPT !.pc = "catch"]
    /\ UNCHANGED <<progress, procs, metrics, sse>>
    /\ OtherVarsUnchanged

\* the catch block of handleStreamingZipExport publishes 'error' and rethrows;
\* the catch block of POST answers 500
ZipCatch(delivered) ==
    /\ exp.pc = "catch"
    /\ Publish(Update("error", Undefined, Undefined, Undefined, Undefined, TRUE), delivered)
    /\ exp' = [exp EXCEPT !.pc = "done", !.response = "500"]
    /\ UNCHANGED <<procs, metrics, archive, sse>>
    /\ OtherVarsUnchanged

----------------------------------------------------------------------------
(* The progress stream: GET /api/sessions/[sessionId]/export-progress. *)

\* GET: the stream starts and the 500 ms poll is armed
SseConnect ==
    /\ ~sse.connected
    /\ sse' = [sse EXCEPT !.connected = TRUE, !.open = TRUE, !.interval = TRUE]
    /\ UNCHANGED <<progress, exp, procs, metrics, archive>>
    /\ OtherVarsUnchanged

\* a poll tick that finds an entry: it is sent, and a terminal status arms a
\* 2 s teardown timer
SsePoll ==
    /\ sse.interval
    /\ progress.present
    /\ progress.status \in Terminal => sse.timers < MaxTimers
    /\ sse' = [sse EXCEPT !.lastSent = progress.status,
                          !.timers = IF progress.status \in Terminal THEN @ + 1 ELSE @]
    /\ UNCHANGED <<progress, exp, procs, metrics, archive>>
    /\ OtherVarsUnchanged

\* controller.close(), which throws on a controller that is closed already
Close(s) == IF s.open THEN [s EXCEPT !.open = FALSE]
            ELSE [s EXCEPT !.closeErrors = @ + 1]

\* a teardown timer fires: deleteProgress, controller.close(), clearInterval
SseTeardown ==
    /\ sse.timers > 0
    /\ progress' = NoProgress
    /\ sse' = IF sse.open
              THEN [Close(sse) EXCEPT !.timers = @ - 1, !.interval = FALSE]
              ELSE [Close(sse) EXCEPT !.timers = @ - 1]
    /\ UNCHANGED <<exp, procs, metrics, archive>>
    /\ OtherVarsUnchanged

\* the client goes away (request abort): clearInterval, controller.close()
SseAbort ==
    /\ sse.connected
    /\ ~sse.aborted
    /\ sse' = [Close(sse) EXCEPT !.interval = FALSE, !.aborted = TRUE]
    /\ UNCHANGED <<progress, exp, procs, metrics, archive>>
    /\ OtherVarsUnchanged

\* the 10-minute timer of the stream fires: clearInterval, controller.close()
SseAutoCleanup ==
    /\ sse.connected
    /\ ~sse.expired
    /\ sse' = [Close(sse) EXCEPT !.interval = FALSE, !.expired = TRUE]
    /\ UNCHANGED <<progress, exp, procs, metrics, archive>>
    /\ OtherVarsUnchanged

----------------------------------------------------------------------------
(* Specifications. *)

vars == <<metadata, mapping, sessions, files, nextId, nextSession, imp, result,
          progress, exp, procs, metrics, archive, sse, heal, calls>>

\* Session 1 belongs to the importing user, session 2 to somebody else.
EmptyStore ==
    [metadata |-> (1 :> <<>>) @@ (2 :> <<>>),
     mapping |-> <<>>,
     sessions |-> (1 :> [exists |-> TRUE, created_by |-> "u1", image_count |-> 0,
                         name |-> <<"s1">>])
                  @@ (2 :> [exists |-> TRUE, created_by |-> "u2", image_count |-> 0,
                            name |-> <<"s2">>]),
     files |-> {},
     nextId |-> 1,
     nextSession |-> 3]

InitStore(st) ==
    /\ metadata = st.metadata
    /\ mapping = st.mapping
    /\ sessions = st.sessions
    /\ files = st.files
    /\ nextId = st.nextId
    /\ nextSession = st.nextSession

\* The storage layer under upload and delete requests, from empty sessions.
StorageInit ==
    /\ InitStore(EmptyStore)
    /\ imp = Idle
    /\ result = NoResult
    /\ ExportIdle
    /\ heal = NoHeal
    /\ calls = <<>>

StorageNext ==
    \/ \E s \in DOMAIN sessions, p \in {"p1", "p2"} : Upload(s, p)
    \/ \E id \in DOMAIN mapping : Delete(id)

StorageSpec == StorageInit /\ [][StorageNext]_vars

\* What earlier archive imports left in session 1 before the importData call
\* under study: nothing; a.png; a.png and a_1.png; b.png and a.png.
SeedA == Entry(A_PNG, "oa", "p0", "midjourney", ImagesPath(A_PNG),
               Some({<<"aesthetic", 2>>}), Some(2), Some(<<"old">>), Some("old"))
SeedA1 == Entry(A_1_PNG, "ox", "", "other", ImagesPath(A_1_PNG),
                Absent, Absent, Absent, Absent)
SeedB == Entry(B_PNG, "ob", "p2", "other", ImagesPath(B_PNG),
               Absent, Absent, Absent, Absent)

SeedLists == { <<>>, <<SeedA>>, <<SeedA, SeedA1>>, <<SeedB, SeedA>> }

RECURSIVE Seeded(_, _)
\* the storage after importing the seed entries from an archive that holds their files
Seeded(st, seed) ==
    IF seed = <<>> THEN st
    ELSE LET d == Head(seed)
             written == [st EXCEPT !.files = st.files \cup {AbsoluteFilePath(1, d.filename)}]
         IN Seeded(CreateImage(written, NewImageData(d, 1, d.filename, Importer)), Tail(seed))

Init ==
    /\ \E seed \in SeedLists : InitStore(Seeded(EmptyStore, seed))
    /\ imp = Idle
    /\ result = NoResult
    /\ ExportIdle
    /\ heal = NoHeal
    /\ calls = <<>>

TargetIds == {0, 1, 2}

ImportOptions ==
    { [mode |-> "new", targetSessionId |-> 0, duplicateStrategy |-> "skip"] }
    \cup { [mode |-> "merge", targetSessionId |-> t, duplicateStrategy |-> s] :
             t \in TargetIds, s \in Strategies }

Next ==
    \/ \E b \in Bundles, o \in ImportOptions : ImportStart(b, o)
    \/ \E io \in IOOutcomes : ImportEntry(io)
    \/ ImportFinish

Spec == Init /\ [][Next]_vars

RECURSIVE UploadedTimes(_, _)
\* the storage after n uploads into the exported session
UploadedTimes(st, n) ==
    IF n = 0 THEN st ELSE Uploaded(UploadedTimes(st, n - 1), ExportSession, "p1")

\* the files of the exported session that stat finds
FilesOfSize(st, sizes) ==
    { ListImages(st, ExportSession)[k].file_path :
        k \in { j \in 1..Len(sizes) : sizes[j] # Missing } }

\* An export request and a progress stream over a session that uploads have
\* filled, each file being absent, empty, ordinary or oversized.
ExportInitUnder(settings) ==
    /\ \E n \in 0..MaxExport : \E sizes \in [1..n -> FileSizes] :
          LET st == UploadedTimes(EmptyStore, n) IN
          /\ InitStore([st EXCEPT !.files = FilesOfSize(st, sizes)])
          /\ \E c \in settings : exp = [NoExport EXCEPT !.sizes = sizes,
                                                        !.continueOnError = c]
    /\ imp = Idle
    /\ result = NoResult
    /\ progress = NoProgress
    /\ procs = <<>>
    /\ metrics = NoMetrics
    /\ archive = NoArchive
    /\ sse = NoStream
    /\ heal = NoHeal
    /\ calls = <<>>

\* the export under the configuration of the source
ExportInit == ExportInitUnder({TRUE})

\* the export under either setting of CONTINUE_ON_ERROR
ConfiguredExportInit == ExportInitUnder(BOOLEAN)

\* the steps of the export handler once the request is in
ExportStep ==
    \/ \E delivered \in BOOLEAN : ExportNoImages(delivered)
    \/ \E delivered \in BOOLEAN : ExportDispatch(delivered)
    \/ \E delivered \in BOOLEAN : ExportInvalidMode(delivered)
    \/ \E delivered \in BOOLEAN : JsonProcessing(delivered)
    \/ \E delivered \in BOOLEAN : JsonComplete(delivered)
    \/ \E delivered \in BOOLEAN : ZipValidate(delivered)
    \/ \E delivered \in BOOLEAN : ZipNoValid(delivered)
    \/ \E delivered \in BOOLEAN : ZipBegin(delivered)
    \/ BatchStart
    \/ \E k \in DOMAIN procs, ok \in BOOLEAN : ReadFile(k, ok)
    \/ \E k \in DOMAIN procs : BackoffElapsed(k)
    \/ \E k \in DOMAIN procs : AppendEntry(k)
    \/ \E k \in DOMAIN procs, delivered \in BOOLEAN : DeliverProgress(k, delivered)
    \/ BatchEnd
    \/ \E delivered \in BOOLEAN : PublishComplete(delivered)
    \/ \E ok \in BOOLEAN : Finalize(ok)
    \/ \E delivered \in BOOLEAN : ZipCatch(delivered)

ExportNext ==
    \/ \E mode \in ExportModes, delivered \in BOOLEAN : ExportPost(mode, delivered)
    \/ ExportStep
    \/ SseConnect
    \/ SsePoll
    \/ SseTeardown
    \/ SseAbort
    \/ SseAutoCleanup

ExportSpec == ExportInit /\ [][ExportNext]_vars

\* The handler keeps running once started, and armed timers fire; whether a
\* client opens a progress stream, and when it leaves, is up to the client.
ExportFairSpec ==
    /\ ExportInit
    /\ [][ExportNext]_vars
    /\ WF_vars(ExportStep)
    /\ WF_vars(SsePoll)
    /\ WF_vars(SseTeardown)
    /\ WF_vars(SseAutoCleanup)

----------------------------------------------------------------------------
(* Claims about the storage layer and the import service. *)

DistinctFilenames(images) ==
    \A j, k \in 1..Len(images) : j # k => images[j].filename # images[k].filename

\* the records of the session the import call worked on (its target, or the
\* session it created)
Target == IF imp.options.mode = "merge" THEN imp.options.targetSessionId ELSE imp.sessionId
TargetImages == ReadMetadata(Store, Target)

Done == imp.pc = "done"
DecodesToImages == imp.bundle.kind \in {"json", "zip"} /\ imp.bundle.hasMetadata

\* C1 (as claimed): every importData call on a bundle that decodes to a list of
\* images, successful or not, returns imported + skipped = number of entries.
C1_AccountingEveryCall ==
    (Done /\ DecodesToImages)
        => result.imported + result.skipped = Len(imp.bundle.images)

\* C2: after any sequence of completed createImage and deleteImage calls, an
\* existing session's image_count is the number of records stored for it.
C2_ImageCountMatches ==
    \A sid \in DOMAIN sessions :
        sessions[sid].exists => sessions[sid].image_count = Len(ReadMetadata(Store, sid))

\* C2 witness: records were created and one was deleted again
C2_Witness ==
    /\ nextId = 4
    /\ Len(ReadMetadata(Store, 1)) = 2
    /\ sessions[1].image_count = 2

\* C3 (as claimed): a session whose filenames were pairwise distinct before an
\* importData call still has pairwise distinct filenames after it.
C3_FilenamesStayDistinct ==
    (Done /\ DistinctFilenames(imp.pre)) => DistinctFilenames(TargetImages)

\* the scenario of the duplicate-strategy claims: a merge into a session that
\* holds exactly one record, a.png, of a bundle with exactly one entry, a.png
OneOnOne(strategy) ==
    /\ Done
    /\ DecodesToImages
    /\ imp.options.mode = "merge"
    /\ imp.options.duplicateStrategy = strategy
    /\ Target = 1
    /\ Len(imp.pre) = 1 /\ imp.pre[1].filename = A_PNG
    /\ Len(imp.bundle.images) = 1 /\ imp.bundle.images[1].filename = A_PNG

CarriesMetadata(r, d) ==
    /\ r.prompt = d.prompt
    /\ r.generator_used = d.generator_used
    /\ r.ai_scores = OrDefault(d.ai_scores, {})
    /\ r.quality_rating = d.quality_rating
    /\ r.tags = OrDefault(d.tags, <<>>)
    /\ r.notes = OrDefault(d.notes, "")

\* C4 (as claimed): merge with 'replace', one existing a.png, one incoming
\* a.png: the session ends with exactly one record, named a.png, carrying the
\* incoming entry's metadata. (Stated for calls in which no write and no
\* storage call failed, so that a refutation rests on the code alone.)
C4_ReplaceLeavesIncoming ==
    (OneOnOne("replace") /\ imp.faults = 0) =>
        /\ Len(TargetImages) = 1
        /\ TargetImages[1].filename = A_PNG
        /\ CarriesMetadata(TargetImages[1], imp.bundle.images[1])

\* the name <name>_<k><ext> built from a filename, its extension starting at
\* the last dot
Suffixed(filename, k) ==
    LET dot == LastIndexOf(filename, ".")
        cut == IF dot > -1 THEN dot ELSE Len(filename)
    IN SubSeq(filename, 1, cut) \o <<"_">> \o Dec(k) \o SubSeq(filename, cut + 1, Len(filename))

UsedNames(images) == { images[k].filename : k \in 1..Len(images) }

\* the smallest k >= 1 whose suffixed name no record of `images` uses
SmallestFree(filename, images) ==
    CHOOSE k \in 1..(Len(images) + 1) :
        /\ Suffixed(filename, k) \notin UsedNames(images)
        /\ \A j \in 1..(k - 1) : Suffixed(filename, j) \in UsedNames(images)

\* C5 (as claimed): merge with 'rename', one existing a.png, one incoming
\* a.png: the session ends with exactly two records, the existing a.png
\* unchanged and one named a_1.png.
C5_RenameLeavesTwo ==
    (OneOnOne("rename") /\ imp.faults = 0) =>
        /\ Len(TargetImages) = 2
        /\ TargetImages[1] = imp.pre[1]
        /\ TargetImages[2].filename = A_1_PNG

\* a merge with 'rename' of a one-entry bundle whose stored name an existing
\* record uses, the entry having been persisted
RenamedOne ==
    /\ Done
    /\ imp.options.mode = "merge"
    /\ imp.options.duplicateStrategy = "rename"
    /\ Len(imp.bundle.images) = 1
    /\ imp.bundle.images[1].filename \in UsedNames(imp.pre)
    /\ result.imported = 1

\* C5 (amended): in that scenario, provided the incoming entry is persisted
\* (counted imported, not skipped for a missing file or a failed write), the
\* session ends with the existing records unchanged plus one new record, whose
\* name is <name>_<k><ext> for the smallest k >= 1 no existing record uses:
\* a_1.png when only a.png existed.
C5_RenameWhenImported ==
    RenamedOne =>
        LET d == imp.bundle.images[1]
            n == Len(imp.pre)
        IN /\ Len(TargetImages) = n + 1
           /\ SubSeq(TargetImages, 1, n) = imp.pre
           /\ TargetImages[n + 1].filename = Suffixed(d.filename, SmallestFree(d.filename, imp.pre))
           /\ (OneOnOne("rename") => TargetImages[2].filename = A_1_PNG)

\* C5 witness: a.png and a_1.png existed, the incoming a.png became a_2.png
C5_Witness ==
    /\ RenamedOne
    /\ Len(imp.pre) = 2
    /\ TargetImages[3].filename = <<"a", "_", "2", ".", "png">>

\* an incoming entry duplicates a record the session held when the call began
Duplicates(d, images) ==
    \E k \in 1..Len(images) :
        \/ images[k].filename = d.filename
        \/ images[k].original_filename = d.original_filename
        \/ (images[k].prompt = d.prompt /\ images[k].generator_used = d.generator_used
            /\ d.prompt # "")

\* the loop pass over a duplicate in a merge with 'skip'
SkipsDuplicate ==
    /\ imp.pc = "loop"
    /\ imp.i <= Len(imp.bundle.images)
    /\ imp.options.mode = "merge"
    /\ imp.options.duplicateStrategy = "skip"
    /\ Duplicates(imp.bundle.images[imp.i], imp.pre)

\* C6: in a merge with 'skip', the pass over an entry that duplicates an
\* existing record creates, deletes and changes no record and no file and
\* counts the entry as skipped; so one existing a.png and one incoming a.png
\* end as the one original record.
C6_SkipLeavesUntouched ==
    /\ [][SkipsDuplicate =>
            /\ UNCHANGED storageVars
            /\ imp'.skipped = imp.skipped + 1
            /\ imp'.imported = imp.imported]_vars
    /\ [](OneOnOne("skip") =>
            /\ TargetImages = imp.pre
            /\ result.skipped = 1 /\ result.imported = 0)

\* C6 witness: the one-on-one scenario ended, the entry skipped
C6_Witness == OneOnOne("skip") /\ result.skipped = 1 /\ files = imp.preFiles

----------------------------------------------------------------------------
(* Claims about the export and its progress store. *)

Rank(status) ==
    CASE status = "starting" -> 1
      [] status = "validating" -> 2
      [] status = "processing" -> 3
      [] OTHER -> 4

\* C7: while the entry of one export stays in the store its status never goes
\* back in the order starting < validating < processing < {complete, error},
\* and a terminal status, once stored, is never replaced by another status.
C7_StatusNeverRegresses ==
    [][(progress.present /\ progress'.present) =>
         /\ Rank(progress'.status) >= Rank(progress.status)
         /\ progress.status \in Terminal => progress'.status = progress.status]_vars

\* C8: during a full export the stored percentage never decreases from one
\* update to the next, it is 100 once the finalization update ('complete') is
\* stored, and it is 100 at no earlier status.
C8_PercentageReaches100 ==
    /\ [][(exp.mode = "full" /\ progress.present /\ progress'.present) =>
            progress'.percentage >= progress.percentage]_vars
    /\ [](exp.mode = "full" /\ progress.present =>
            /\ progress.status = "complete" => progress.percentage = 100
            /\ progress.percentage = 100 => progress.status \in Terminal)

\* C9: an entry whose status is complete or error is eventually removed from
\* the store, with or without a progress stream connected.
C9_TerminalEntryRemoved ==
    (progress.present /\ progress.status \in Terminal) ~> ~progress.present

\* how many entries of the archive carry the given name
Occurrences(entries, name) == Cardinality({ k \in 1..Len(entries) : entries[k] = name })

\* C10: the archive of a full export that completed holds exactly one
\* metadata.json, exactly one entry images/<filename> for each image that
\* metadata.json lists, and no other entry.
C10_ArchiveMatchesMetadata ==
    (exp.pc = "done" /\ exp.response = "zip") =>
        /\ Occurrences(archive.entries, MetadataEntry) = 1
        /\ \A k \in 1..Len(archive.listed) :
              Occurrences(archive.entries, ImagesPath(archive.listed[k])) = 1
        /\ \A k \in 1..Len(archive.entries) :
              \/ archive.entries[k] = MetadataEntry
              \/ \E j \in 1..Len(archive.listed) :
                    archive.entries[k] = ImagesPath(archive.listed[j])

----------------------------------------------------------------------------
(* Export in full mode, then import of the archive in new mode. *)

SeedC == Entry(C_PNG, "oc", "p1", "dalle", ImagesPath(C_PNG),
               Some({<<"aesthetic", 7>>, <<"clip", 3>>}), Some(5), Some(<<"t">>), Absent)

SeedAll == <<SeedA, SeedB, SeedA1, SeedC>>

\* the image object handleStreamingZipExport writes into metadata.json:
\* the record with its file_path replaced by `images/${filename}`
ExportedImage(image) == [image EXCEPT !.file_path = ImagesPath(image.filename)]

\* (mutant: the schema has no ai_scores key, so the parse strips it)
ParsedImageNoScores(exported) ==
    Entry(exported.filename, exported.original_filename, exported.prompt,
          exported.generator_used, exported.file_path, Absent,
          exported.quality_rating, Some(exported.tags), Some(exported.notes))

\* what JSON.parse and ImportMetadataSchema.parse make of an exported image
ParsedImage(exported) ==
    Entry(exported.filename, exported.original_filename, exported.prompt,
          exported.generator_used, exported.file_path, Some(exported.ai_scores),
          exported.quality_rating, Some(exported.tags), Some(exported.notes))

\* the archive a completed full export streamed, as the file importData receives
ArchiveBundle ==
    [kind |-> "zip",
     hasMetadata |-> \E k \in 1..Len(archive.entries) : archive.entries[k] = MetadataEntry,
     images |-> [k \in 1..Len(exp.valid) |-> ParsedImage(ExportedImage(Images[exp.valid[k]]))],
     zipFiles |-> { archive.entries[k] : k \in 1..Len(archive.entries) } \ {MetadataEntry}]

NewSessionOptions == [mode |-> "new", targetSessionId |-> 0, duplicateStrategy |-> "skip"]

\* the owner uploads the archive of the finished export for import as a new session
RoundTripImport ==
    /\ exp.pc = "done"
    /\ exp.response = "zip"
    /\ ImportStart(ArchiveBundle, NewSessionOptions)

\* A session that archive imports filled (prompts, generators and scores of
\* several kinds), each file being absent, empty, ordinary or oversized.
RoundTripInit ==
    /\ \E n \in 0..Min(MaxExport, Len(SeedAll)) : \E sizes \in [1..n -> FileSizes] :
          LET st == Seeded(EmptyStore, SubSeq(SeedAll, 1, n)) IN
          /\ InitStore([st EXCEPT !.files = FilesOfSize(st, sizes)])
          /\ exp = [NoExport EXCEPT !.sizes = sizes]
    /\ imp = Idle
    /\ result = NoResult
    /\ progress = NoProgress
    /\ procs = <<>>
    /\ metrics = NoMetrics
    /\ archive = NoArchive
    /\ sse = NoStream
    /\ heal = NoHeal
    /\ calls = <<>>

RoundTripNext ==
    \/ \E mode \in ExportModes, delivered \in BOOLEAN : ExportPost(mode, delivered)
    \/ ExportStep
    \/ RoundTripImport
    \/ \E io \in IOOutcomes : ImportEntry(io)
    \/ ImportFinish

RoundTripSpec == RoundTripInit /\ [][RoundTripNext]_vars

\* the fields the round trip is about
Content(r) == [prompt |-> r.prompt, generator_used |-> r.generator_used,
               ai_scores |-> r.ai_scores]

Contents(images) == [k \in 1..Len(images) |-> Content(images[k])]

RoundTripDone == Done /\ exp.response = "zip" /\ result.success

\* the source records whose file passed pre-validation and reached the archive
Archived ==
    SelectSeq(Images, LAMBDA r :
        /\ \E k \in 1..Len(archive.listed) : archive.listed[k] = r.filename
        /\ \E k \in 1..Len(archive.entries) : archive.entries[k] = ImagesPath(r.filename))

----------------------------------------------------------------------------
(* Claims about the export handler's answers. *)

\* C12: a json export of an owned session without images answers with the
\* bundle document (an empty images list), not with an error.
C12_EmptyJsonExportAnswers ==
    (exp.pc = "done" /\ exp.mode = "json" /\ Len(Images) = 0) => exp.response = "json"


\* EXPORT_CONFIG.TIMEOUT_MS go by while the export is running. No timer of
\* the handler is armed for it: createTimeoutPromise and withTimeout have no caller.
TimeoutPasses ==
    /\ exp.pc \notin {"idle", "done"}
    /\ ~exp.overdue
    /\ exp' = [exp EXCEPT !.overdue = TRUE]
    /\ UNCHANGED <<progress, procs, metrics, archive, sse>>
    /\ OtherVarsUnchanged

\* the export handler with the wall clock
TimedExportNext ==
    \/ \E mode \in ExportModes, delivered \in BOOLEAN : ExportPost(mode, delivered)
    \/ ExportStep
    \/ TimeoutPasses

TimedExportSpec == ExportInit /\ [][TimedExportNext]_vars

\* C13: a full export that is still running when the overall timeout has
\* passed ends with an error answer, and no finalized archive is answered.
C13_OverdueExportFails ==
    (exp.pc = "done" /\ exp.mode = "full" /\ exp.overdue) =>
        /\ exp.response \in {"400", "500"}
        /\ archive.state # "finalized"


----------------------------------------------------------------------------
(* Claims about stored paths and import validation. *)

\* C14: no stored image record holds an absolute filesystem path as its
\* file_path; every stored path is relative to the data root.
C14_StoredPathsRelative ==
    \A sid \in DOMAIN metadata : \A k \in 1..Len(metadata[sid]) :
        ~IsAbsolute(metadata[sid][k].file_path)


\* the metadata of the bundle holds an image object the schema rejects
HasRejectedImage(bundle) ==
    /\ bundle.hasMetadata
    /\ \E k \in 1..Len(bundle.images) : ~ImageAccepted(bundle.images[k])

\* C15: an importData call on a bundle that fails schema validation returns
\* success = false and changes nothing: no session, file or record is
\* created or deleted.
C15_InvalidBundleChangesNothing ==
    /\ [][(imp.pc = "idle" /\ imp'.pc # "idle" /\ HasRejectedImage(imp'.bundle)) =>
            /\ UNCHANGED storageVars
            /\ imp'.pc = "done"
            /\ ~result'.success]_vars
    /\ [](Done /\ HasRejectedImage(imp.bundle) =>
            /\ ~result.success
            /\ TargetImages = imp.pre
            /\ files = imp.preFiles)

C15_Witness ==
    /\ Done
    /\ HasRejectedImage(imp.bundle)
    /\ imp.bundle.kind = "zip"
    /\ imp.options.mode = "new"
    /\ ~result.success
    /\ nextSession = 3


----------------------------------------------------------------------------
(* Claims about pre-validation and batching in a full export. *)

\* a file that is missing, empty, or of 50 MB and above
FailsPreValidation(size) == size = Missing \/ size = 0 \/ size >= 50 * 1024 * 1024

\* the filenames, in session order, of the images whose file is acceptable
AcceptableNames ==
    LET ok == SelectSeq([k \in 1..Len(Images) |-> k],
                        LAMBDA k : ~FailsPreValidation(exp.sizes[k]))
    IN [j \in 1..Len(ok) |-> Images[ok[j]].filename]

\* C16: in a full export metadata.json lists exactly the images whose file
\* passed pre-validation and every image entry of the archive belongs to one
\* of them; with some valid file the export goes on to an archive, and with
\* no valid file it ends in an error answer without any archive.
C16_InvalidFilesExcluded ==
    /\ archive.state # "none" =>
          /\ archive.listed = AcceptableNames
          /\ \A k \in 1..Len(archive.entries) :
                \/ archive.entries[k] = MetadataEntry
                \/ \E j \in 1..Len(AcceptableNames) :
                      archive.entries[k] = ImagesPath(AcceptableNames[j])
    /\ (exp.pc = "done" /\ exp.mode = "full" /\ Len(Images) > 0) =>
          IF Len(AcceptableNames) = 0
          THEN exp.response = "500" /\ archive.state = "none"
          ELSE \/ exp.response = "zip" /\ archive.state = "finalized"
               \/ exp.response = "500" /\ archive.state = "failed"

C16_Witness ==
    /\ exp.pc = "done"
    /\ exp.response = "zip"
    /\ Len(Images) = 3
    /\ Len(AcceptableNames) = 2
    /\ Len(archive.entries) = 3
    /\ \E k \in 1..3 : exp.sizes[k] = MaxFileBytes

----------------------------------------------------------------------------
(* Path resolution and recovery: GET /api/images/[imageId]. *)

\* how fs resolves a path: a relative one against process.cwd()
Resolve(p) == IF p.root = "rel" THEN [p EXCEPT !.root = "cwd"] ELSE p

\* access(p) and readFile(p) succeed
Exists(fs, p) == Resolve(p) \in fs

\* path.join(process.cwd(), p.replace(/^\/+/, ''))
JoinCwd(p) ==
    [p EXCEPT !.root = CASE p.root = "rel" -> "cwd"
                         [] p.root = "/" -> "cwd"
                         [] p.root = "cwd" -> "cwd/cwd"
                         [] p.root = "old" -> "cwd/old"
                         [] OTHER -> "deep"]

\* path.join(process.cwd(), 'data', 'sessions', session_id, filename)
DirectSessionPath(sessionId, filename) ==
    [root |-> "cwd", session |-> sessionId, dir |-> "session", file |-> filename]

\* path.join(process.cwd(), 'data', filename)
RootDataPath(filename) ==
    [root |-> "cwd", session |-> 0, dir |-> "data", file |-> filename]

\* the locations GET tries, in its order: the stored path, expectedPath, searchPaths
Candidates(image) ==
    << image.file_path,
       AbsoluteFilePath(image.session_id, image.filename),
       DirectSessionPath(image.session_id, image.filename),
       RootDataPath(image.filename),
       JoinCwd(image.file_path) >>

\* getImage: the record of the id, <<>> when there is none
GetImage(st, id) ==
    IF id \notin DOMAIN st.mapping THEN <<>>
    ELSE LET images == ReadMetadata(st, st.mapping[id])
             at == {k \in 1..Len(images) : images[k].id = id}
         IN IF at = {} THEN <<>> ELSE <<images[CHOOSE k \in at : TRUE]>>

\* updateImage(id, { file_path })
UpdateImage(st, id, filePath) ==
    LET sid == st.mapping[id]
        images == ReadMetadata(st, sid)
    IN [st EXCEPT !.metadata = (sid :> [k \in 1..Len(images) |->
                                           IF images[k].id = id
                                           THEN [images[k] EXCEPT !.file_path = filePath]
                                           ELSE images[k]]) @@ st.metadata]

\* (mutant: the search keeps the last location that answers)
LastUsable(usable) == IF usable = {} THEN 0 ELSE CHOOSE k \in usable : \A j \in usable : j <= k
\* the try/catch chain stops at the first location whose block does not throw
FirstUsable(usable) == IF usable = {} THEN 0 ELSE CHOOSE k \in usable : \A j \in usable : k <= j

\* GET: `writes[k]` tells whether the updateImage that follows a hit on
\* location k succeeds; a throw there is caught like a missing file.
Get(id, writes) ==
    LET found == GetImage(Store, id) IN
    IF found = <<>>
    THEN /\ heal' = [NoHeal EXCEPT !.op = "get", !.id = id, !.response = "404",
                                   !.filesBefore = files]
         /\ UNCHANGED <<storageVars, importVars, exportVars, calls>>
    ELSE LET image == found[1]
             candidates == Candidates(image)
             hits == {k \in 1..Len(candidates) : Exists(files, candidates[k])}
             usable == IF 1 \in hits THEN {1} ELSE {k \in hits : writes[k]}
             used == FirstUsable(usable)
             attempted == IF 1 \in hits THEN {}
                          ELSE {k \in hits : used = 0 \/ k <= used}
         IN /\ heal' = [op |-> "get", id |-> id,
                        response |-> IF used = 0 THEN "404" ELSE "200",
                        used |-> used, stored |-> image.file_path,
                        candidates |-> candidates,
                        faults |-> {k \in attempted : ~writes[k]},
                        filesBefore |-> files, runs |-> 0, fixed |-> 0]
            /\ IF used > 1
               THEN SetStore(UpdateImage(Store, id, candidates[used]))
               ELSE UNCHANGED storageVars
            /\ UNCHANGED <<importVars, exportVars, calls>>

\* The stored paths a record can carry: the one upload and import write today,
\* the relative one the recovery pass writes, the archive-relative and the
\* slash-prefixed one of an earlier import, and one from another installation.
StoredPaths(sessionId, filename) ==
    { AbsoluteFilePath(sessionId, filename),
      [root |-> "rel", session |-> sessionId, dir |-> "images", file |-> filename],
      [root |-> "rel", session |-> 0, dir |-> "archive", file |-> filename],
      [root |-> "/", session |-> 0, dir |-> "archive", file |-> filename],
      [root |-> "old", session |-> sessionId, dir |-> "images", file |-> filename] }

\* where the file of a record can lie on disk
Locations(sessionId, filename) ==
    { AbsoluteFilePath(sessionId, filename),
      DirectSessionPath(sessionId, filename),
      RootDataPath(filename),
      [root |-> "cwd", session |-> 0, dir |-> "archive", file |-> filename],
      [root |-> "cwd", session |-> 0, dir |-> "data/archive", file |-> filename],
      [root |-> "/", session |-> 0, dir |-> "archive", file |-> filename],
      [root |-> "old", session |-> sessionId, dir |-> "images", file |-> filename],
      [root |-> "cwd/old", session |-> sessionId, dir |-> "images", file |-> filename] }

HealSeeds == <<SeedA, SeedB>>

RECURSIVE HealSeeded(_, _, _, _)
\* the storage with records 1..n of HealSeeds in the session, stored under `paths`
HealSeeded(st, sessionId, paths, n) ==
    IF n = 0 THEN st
    ELSE LET d == HealSeeds[n]
             before == HealSeeded(st, sessionId, paths, n - 1)
         IN CreateImage(before, [NewImageData(d, sessionId, d.filename, Importer)
                                    EXCEPT !.file_path = paths[n]])

\* the sets of at most `most` locations that hold the file of record k
HealFiles(sessionId, k, most) ==
    {L \in SUBSET Locations(sessionId, HealSeeds[k].filename) : Cardinality(L) <= most}

\* whether the updateImage after a hit on location k succeeds: always, never,
\* not at the canonical location
WriteOutcomes ==
    { [k \in 2..5 |-> TRUE], [k \in 2..5 |-> FALSE], [k \in 2..5 |-> k # 2] }

\* session 1 was created by its user, session 3 by an import
HealSessions == {1, 3}

HealInit ==
    /\ \E sid \in HealSessions, n \in 1..Len(HealSeeds) :
         \E p1 \in StoredPaths(sid, HealSeeds[1].filename),
            p2 \in StoredPaths(sid, HealSeeds[2].filename),
            w1 \in HealFiles(sid, 1, 2),
            w2 \in HealFiles(sid, 2, 1) :
              /\ n = 1 => (p2 = AbsoluteFilePath(sid, HealSeeds[2].filename) /\ w2 = {})
              /\ InitStore([HealSeeded(CreateSession(EmptyStore, Importer, ImportedName),
                                       sid, <<p1, p2>>, n)
                               EXCEPT !.files = w1 \cup w2])
    /\ imp = Idle
    /\ result = NoResult
    /\ ExportIdle
    /\ heal = NoHeal
    /\ calls = <<>>

HealNext ==
    \/ \E id \in 1..Len(HealSeeds), writes \in WriteOutcomes : Get(id, writes)

HealSpec == HealInit /\ [][HealNext]_vars

----------------------------------------------------------------------------
(* The offline recovery pass: fixImportedSessions. *)

\* config.name.includes('(Imported)')
NameIncludesImported(name) == \E k \in 1..Len(name) : name[k] = " (Imported)"

\* originalPath.startsWith('images/') ||
\* originalPath.includes('/images/') && !path.isAbsolute(originalPath)
MalformedImportPath(p) ==
    \/ (p.root = "rel" /\ p.dir = "archive")
    \/ (p.dir \in {"images", "data/archive"} /\ ~IsAbsolute(p))

\* path.relative(projectRoot, expectedAbsolutePath)
CorrectRelativePath(sessionId, filename) ==
    [root |-> "rel", session |-> sessionId, dir |-> "images", file |-> filename]

\* path.join(projectRoot, 'data', originalPath), for a relative originalPath
JoinData(p) ==
    IF p.dir = "archive" THEN [p EXCEPT !.root = "cwd", !.dir = "data/archive"]
    ELSE [p EXCEPT !.root = "deep"]

\* possibleLocations
PossibleLocations(sessionId, image) ==
    << DirectSessionPath(sessionId, image.filename),
       Resolve(image.file_path),
       JoinData(image.file_path) >>

\* (mutant: a file found elsewhere is copied but the record keeps its path)
FoundElsewhereKeepsPath(original, correct) == original
\* the path written for a record whose file was found at a possible location
FoundElsewherePath(original, correct) == correct

\* one record of the loop: the record as written to fixedImages and the files after
FixImage(fs, sessionId, image) ==
    LET expected == AbsoluteFilePath(sessionId, image.filename)
        correct == CorrectRelativePath(sessionId, image.filename)
        possible == PossibleLocations(sessionId, image)
        found == {k \in 1..Len(possible) : Exists(fs, possible[k])}
    IN IF ~MalformedImportPath(image.file_path)
       THEN [image |-> image, files |-> fs]
       ELSE IF Exists(fs, expected)
       THEN [image |-> [image EXCEPT !.file_path = correct], files |-> fs]
       ELSE IF found # {}
       THEN [image |-> [image EXCEPT !.file_path =
                                        FoundElsewherePath(image.file_path, correct)],
             files |-> fs \cup {expected}]
       ELSE [image |-> image, files |-> fs]

RECURSIVE FixImages(_, _, _)
\* the loop over Object.entries(metadata.images)
FixImages(fs, sessionId, images) ==
    IF images = <<>> THEN [images |-> <<>>, files |-> fs]
    ELSE LET first == FixImage(fs, sessionId, Head(images))
             rest == FixImages(first.files, sessionId, Tail(images))
         IN [images |-> <<first.image>> \o rest.images, files |-> rest.files]

\* one session of the pass: only sessions named as imported are touched
FixSession(st, sessionId) ==
    IF ~NameIncludesImported(GetSession(st, sessionId).name) THEN st
    ELSE LET fixedImages == FixImages(st.files, sessionId, ReadMetadata(st, sessionId))
         IN [st EXCEPT !.metadata = (sessionId :> fixedImages.images) @@ st.metadata,
                       !.files = fixedImages.files]

RECURSIVE FixSessions(_, _)
FixSessions(st, ids) ==
    IF ids = {} THEN st
    ELSE LET id == CHOOSE i \in ids : \A j \in ids : i <= j
         IN FixSessions(FixSession(st, id), ids \ {id})

\* fixImportedSessions: every directory under data/sessions
FixImportedSessions(st) == FixSessions(st, DOMAIN st.metadata)

\* one run of the pass
FixRun ==
    /\ heal.runs < MaxRuns
    /\ LET after == FixImportedSessions(Store)
       IN /\ SetStore(after)
          /\ heal' = [NoHeal EXCEPT !.op = "fix", !.runs = heal.runs + 1,
                                    !.filesBefore = files,
                                    !.fixed = IF after = Store THEN heal.fixed
                                              ELSE heal.fixed + 1]
    /\ UNCHANGED <<importVars, exportVars, calls>>

FixNext == FixRun

FixSpec == HealInit /\ [][FixNext]_vars

\* C18: a run of fixImportedSessions that directly follows another run leaves
\* every record's stored path and every file on disk as the first run left them.
C18_SecondRunChangesNothing ==
    [][(heal.op = "fix" /\ heal'.op = "fix") => UNCHANGED storageVars]_vars

\* two runs were made, the first of which copied a file and rewrote a path
C18_Witness ==
    /\ heal.op = "fix"
    /\ heal.runs = 2
    /\ heal.fixed = 1
    /\ \E k \in 1..Len(ReadMetadata(Store, 3)) :
          /\ ReadMetadata(Store, 3)[k].file_path
                = CorrectRelativePath(3, ReadMetadata(Store, 3)[k].filename)
          /\ DirectSessionPath(3, ReadMetadata(Store, 3)[k].filename) \in files
          /\ AbsoluteFilePath(3, ReadMetadata(Store, 3)[k].filename) \in files

----------------------------------------------------------------------------
(* Archive entries that are missing from the archive. *)

\* entry k of the bundle reaches the archive lookup and names a path the
\* archive does not hold
MissingFromArchive(bundle, k) ==
    /\ bundle.kind = "zip"
    /\ bundle.images[k].filename # <<>>
    /\ bundle.images[k].file_path # <<>>
    /\ StripLeadingSlashes(bundle.images[k].file_path) \notin bundle.zipFiles

\* entry k of the bundle names a path the archive holds
PresentInArchive(bundle, k) ==
    /\ bundle.kind = "zip"
    /\ bundle.images[k].filename # <<>>
    /\ bundle.images[k].file_path # <<>>
    /\ StripLeadingSlashes(bundle.images[k].file_path) \in bundle.zipFiles

\* the error string of a missing entry: its original name and the path searched
MissingError(d) ==
    Error("not_in_zip", d.original_filename, StripLeadingSlashes(d.file_path))

\* the loop iteration of an entry that is missing from the archive and reaches
\* the lookup: it is not skipped as a duplicate, and the deletion 'replace'
\* makes before the lookup does not throw
MissingEntryStep ==
    /\ imp.pc = "loop"
    /\ imp'.pc = "loop"
    /\ imp'.i = imp.i + 1
    /\ MissingFromArchive(imp.bundle, imp.i)
    /\ LET duplicate == IF imp.options.mode = "merge"
                        THEN CheckDuplicate(imp.bundle.images[imp.i], imp.existing) ELSE 0
       IN \/ duplicate = 0
          \/ imp.options.duplicateStrategy = "rename"
          \/ /\ imp.options.duplicateStrategy = "replace"
             /\ ~DeleteImageThrows(Store, imp.existing[duplicate].id)

\* C19: in an archive import, the iteration of an entry whose path is not in
\* the archive adds one to skipped and one error string holding the path
\* searched, creates no record and writes no file, and the loop goes on; an
\* import into a new session without I/O faults returns success=true with
\* every entry the archive holds imported and one error per missing entry.
C19_MissingEntrySkippedOthersImported ==
    /\ [][MissingEntryStep =>
            /\ imp'.skipped = imp.skipped + 1
            /\ imp'.imported = imp.imported
            /\ imp'.errors = Append(imp.errors, MissingError(imp.bundle.images[imp.i]))
            /\ nextId' = nextId
            /\ DOMAIN mapping' \subseteq DOMAIN mapping
            /\ files' \subseteq files
            /\ Len(ReadMetadata(Store, imp.sessionId)')
                  <= Len(ReadMetadata(Store, imp.sessionId))]_vars
    /\ []((imp.pc = "done" /\ imp.bundle.kind = "zip" /\ imp.options.mode = "new"
           /\ imp.faults = 0 /\ imp.i > 1) =>
            LET n == Len(imp.bundle.images)
                missing == {k \in 1..n : MissingFromArchive(imp.bundle, k)}
                present == {k \in 1..n : PresentInArchive(imp.bundle, k)}
            IN /\ result.success
               /\ result.imported = Cardinality(present)
               /\ Len(ReadMetadata(Store, imp.sessionId)) = Cardinality(present)
               /\ \A k \in present : \E j \in 1..Len(ReadMetadata(Store, imp.sessionId)) :
                     ReadMetadata(Store, imp.sessionId)[j].original_filename
                        = imp.bundle.images[k].original_filename
               /\ Len(result.errors) = Cardinality(missing)
               /\ \A k \in missing : \E j \in 1..Len(result.errors) :
                     result.errors[j] = MissingError(imp.bundle.images[k])
               /\ result.skipped = n - Cardinality(present))

\* an archive of two entries, one missing and one present, was imported into a
\* new session: one record, one skipped entry, one error
C19_Witness ==
    /\ imp.pc = "done"
    /\ imp.bundle.kind = "zip"
    /\ imp.options.mode = "new"
    /\ Len(imp.bundle.images) = 2
    /\ MissingFromArchive(imp.bundle, 1)
    /\ PresentInArchive(imp.bundle, 2)
    /\ result.success
    /\ result.imported = 1
    /\ result.skipped = 1
    /\ result.errors = <<MissingError(imp.bundle.images[1])>>

----------------------------------------------------------------------------
(* Concurrency of the file reads of a full export. *)

\* EXPORT_CONFIG.MAX_CONCURRENT_FILES: 5 against a BATCH_SIZE of 10 in the
\* source, half a batch here as there
MAX_CONCURRENT_FILES == BatchSize \div 2

\* the processors whose readFile is under way
ReadsInFlight == {k \in DOMAIN procs : procs[k].pc = "read"}

\* C20: at every moment of a full export at most MAX_CONCURRENT_FILES reads
\* are in flight, and every running processor belongs to the current batch
\* (no read of the next batch starts before the reads of this one settled).
C20_ReadsCappedBatchesSequential ==
    /\ Cardinality(ReadsInFlight) <= MAX_CONCURRENT_FILES
    /\ \A k \in DOMAIN procs :
          \E j \in 1..Len(Batch(exp.valid, exp.batch, BatchSize)) :
             Batch(exp.valid, exp.batch, BatchSize)[j] = procs[k].image

----------------------------------------------------------------------------
(* When the response of a full export reaches the caller. *)

\* C21: while the image batches of a full export are processed the caller
\* already holds the response whose body is the archive stream, and
\* metadata.json is the first entry of the archive.
C21_ResponseBeforeBatches ==
    (exp.mode = "full" /\ exp.pc \in {"batch", "await"}) =>
        /\ exp.response = "zip"
        /\ archive.entries # <<>>
        /\ archive.entries[1] = MetadataEntry

----------------------------------------------------------------------------
(* CONTINUE_ON_ERROR and the retries of safeReadFile. *)

ConfiguredExportNext ==
    \/ \E mode \in ExportModes, delivered \in BOOLEAN : ExportPost(mode, delivered)
    \/ ExportStep

ConfiguredExportSpec == ConfiguredExportInit /\ [][ConfiguredExportNext]_vars

\* a file of the export had all its read attempts fail
ReadExhausted == metrics.failedFiles > 0

\* C22: a full export in which a file exhausted its read attempts ends in an
\* error answer when CONTINUE_ON_ERROR is disabled; when it is enabled the
\* file is left out and the archive of the remaining files is answered
\* unless finalization itself fails.
C22_ExhaustedReadFailsUnlessContinue ==
    (exp.pc = "done" /\ exp.mode = "full" /\ ReadExhausted) =>
        IF exp.continueOnError
        THEN archive.state = "finalized" => exp.response = "zip"
        ELSE exp.response = "500" /\ archive.state # "finalized"


\* the full export has gone through all its batches
BatchesOver ==
    /\ exp.mode = "full"
    /\ exp.pc \in {"finalize", "done"}
    /\ archive.state # "none"

\* C23: safeReadFile makes at most MAX_RETRY_ATTEMPTS attempts and hands on
\* the contents of the first one that succeeds; after the k-th failed attempt
\* that is not the last it waits 2^k * 100 ms; exhaustion raises the failed
\* count by one and leaves the other processors of the batch running; after
\* all batches processed + failed is the number of files attempted.
C23_RetriesBackoffAndAccounting ==
    /\ [](\A k \in DOMAIN procs :
            /\ procs[k].attempts <= MAX_RETRY_ATTEMPTS
            /\ procs[k].pc \in {"read", "backoff", "append", "publish"}
                  => procs[k].attempts < MAX_RETRY_ATTEMPTS
            /\ procs[k].pc = "backoff" =>
                  /\ procs[k].attempts >= 1
                  /\ procs[k].delay = (2 ^ procs[k].attempts) * 100)
    /\ [][\A k \in DOMAIN procs : (k \in DOMAIN procs' /\ procs[k].pc = "read") =>
            \* the attempt succeeds: the contents go on, no further attempt
            \/ /\ procs'[k].pc = "append"
               /\ procs'[k].attempts = procs[k].attempts
               /\ metrics'.processedFiles = metrics.processedFiles + 1
               /\ metrics'.failedFiles = metrics.failedFiles
            \* it fails and is not the last: the wait is armed
            \/ /\ procs'[k].pc = "backoff"
               /\ procs'[k].attempts = procs[k].attempts + 1
               /\ procs'[k].delay = (2 ^ procs'[k].attempts) * 100
               /\ metrics' = metrics
            \* it fails and is the last: failed rises by one, the others go on unchanged
            \/ /\ procs'[k].pc = "done"
               /\ procs'[k].attempts = MAX_RETRY_ATTEMPTS
               /\ metrics'.failedFiles = metrics.failedFiles + 1
               /\ metrics'.processedFiles = metrics.processedFiles
               /\ \A j \in DOMAIN procs : j # k => procs'[j] = procs[j]
               /\ exp' = exp
            \* another processor moved
            \/ procs'[k] = procs[k]]_vars
    /\ [](BatchesOver =>
            metrics.processedFiles + metrics.failedFiles = Len(exp.valid))

\* an export of two or more files ended with its archive answered: one file
\* was read, another exhausted its attempts
C23_Witness ==
    /\ BatchesOver
    /\ exp.pc = "done"
    /\ Len(exp.valid) >= 2
    /\ metrics.processedFiles >= 1
    /\ metrics.failedFiles >= 1
    /\ exp.response = "zip"

----------------------------------------------------------------------------
(* processImagesBatched. *)

\* the least c with c * b >= n
Ceil(n, b) == CHOOSE c \in 0..n : c * b >= n /\ (c = 0 \/ (c - 1) * b < n)

\* the batches of items 1..n under batch size b are ceil(n/b) many, batch i
\* is items i*b+1 .. min((i+1)*b, n), all but the last have b items, and every
\* item is in exactly one batch
BatchesPartition(n, b) ==
    LET items == [k \in 1..n |-> k]
        total == TotalBatches(n, b)
    IN /\ total = Ceil(n, b)
       /\ \A i \in 0..(total - 1) :
             LET batch == Batch(items, i, b)
                 end == IF (i + 1) * b <= n THEN (i + 1) * b ELSE n
             IN /\ Len(batch) = end - i * b
                /\ Len(batch) >= 1
                /\ \A j \in 1..Len(batch) : batch[j] = items[i * b + j]
                /\ i < total - 1 => Len(batch) = b
       /\ \A k \in 1..n :
             Cardinality({ij \in (0..(total - 1)) \X (1..b) :
                             /\ ij[2] <= Len(Batch(items, ij[1], b))
                             /\ Batch(items, ij[1], b)[ij[2]] = items[k]}) = 1

\* the images of the running processors, in their order
ProcImages == [k \in DOMAIN procs |-> procs[k].image]

\* C24: processImagesBatched calls the processor ceil(n/b) times with
\* increasing batch index, batch i being items i*b .. min((i+1)*b, n)-1
\* (0-based): the batches partition the items, all but the last are full, and
\* the call for the next batch starts only after the current one has
\* resolved; 237 items in batches of 10 are 24 batches, the last of 7.
C24_BatchesPartitionInOrder ==
    /\ [](exp.pc = "idle" =>
            /\ \A n \in 0..(4 * MaxExport), b \in 1..(2 * BatchSize) : BatchesPartition(n, b)
            /\ TotalBatches(237, 10) = 24
            /\ Min(24 * 10, 237) - 23 * 10 = 7)
    /\ [](exp.pc = "await" =>
            /\ exp.batch < Ceil(Len(exp.valid), BatchSize)
            /\ ProcImages = Batch(exp.valid, exp.batch, BatchSize))
    /\ [][/\ exp'.batch # exp.batch =>
               \/ exp'.pc \in {"idle", "listed"}
               \/ exp'.batch = 0 /\ procs = <<>>
               \/ /\ exp'.batch = exp.batch + 1
                  /\ \A k \in DOMAIN procs : procs[k].pc \in {"done", "rejected"}
          /\ (procs = <<>> /\ procs' # <<>>) => exp.pc = "batch"]_vars
    /\ [](BatchesOver => exp.batch = Ceil(Len(exp.valid), BatchSize))

\* an export went through two or more batches, the last of them partial
C24_Witness ==
    /\ BatchesOver
    /\ exp.batch >= 2
    /\ Len(exp.valid) % BatchSize # 0
    /\ Len(archive.entries) = 1 + Len(exp.valid)

----------------------------------------------------------------------------
(* Soft errors of skipped entries. *)

\* the entry of this iteration is a duplicate that the 'skip' strategy sets aside
SkippedAsDuplicate ==
    /\ imp.bundle.images[imp.i].filename # <<>>
    /\ imp.bundle.images[imp.i].original_filename # ""
    /\ imp.options.mode = "merge"
    /\ imp.options.duplicateStrategy = "skip"
    /\ CheckDuplicate(imp.bundle.images[imp.i], imp.existing) # 0

\* C25: every loop iteration that counts its entry as skipped, other than a
\* duplicate under the 'skip' strategy, adds one string to the errors list;
\* so a successful result without errors skipped nothing but such duplicates.
C25_SkippedEntriesLeaveAnError ==
    [][(imp.pc = "loop" /\ imp'.pc = "loop" /\ imp'.skipped = imp.skipped + 1
        /\ ~SkippedAsDuplicate)
          => Len(imp'.errors) = Len(imp.errors) + 1]_vars

----------------------------------------------------------------------------
(* The precedence of checkDuplicate. *)

\* k is the first position of `existing` in the set S
IsFirstOf(k, S) == k \in S /\ \A j \in S : k <= j

\* what the claim says checkDuplicate returns for entry d against `existing`
PrecedenceHolds(d, existing) ==
    LET r == CheckDuplicate(d, existing)
        byName == {k \in 1..Len(existing) : existing[k].filename = d.filename}
        byOriginal == {k \in 1..Len(existing) :
                          existing[k].original_filename = d.original_filename}
        byPrompt == {k \in 1..Len(existing) :
                        /\ d.prompt # ""
                        /\ existing[k].prompt = d.prompt
                        /\ existing[k].generator_used = d.generator_used}
    IN IF byName # {} THEN IsFirstOf(r, byName)
       ELSE IF byOriginal # {} THEN IsFirstOf(r, byOriginal)
       ELSE IF byPrompt # {} THEN IsFirstOf(r, byPrompt)
       ELSE r = 0

\* C26: checkDuplicate returns the first existing record with the entry's
\* stored filename, else the first with its original filename, else the first
\* with its non-empty prompt and its generator, else none; in a merge import
\* under 'replace' it is that record that is deleted.
C26_DuplicatePrecedence ==
    /\ []((imp.pc = "loop" /\ imp.options.mode = "merge") =>
            \A k \in 1..Len(imp.bundle.images) :
               PrecedenceHolds(imp.bundle.images[k], imp.existing))
    /\ [][(/\ imp.pc = "loop" /\ imp'.pc = "loop"
           /\ imp.options.mode = "merge" /\ imp.options.duplicateStrategy = "replace"
           /\ imp.bundle.images[imp.i].filename # <<>>
           /\ CheckDuplicate(imp.bundle.images[imp.i], imp.existing) # 0)
            => LET r == CheckDuplicate(imp.bundle.images[imp.i], imp.existing)
               IN \A id \in DOMAIN mapping : id \notin DOMAIN mapping' => id = imp.existing[r].id]_vars

\* a 'replace' merge has processed an entry whose filename is that of the
\* second existing record and whose original filename is that of the first:
\* the second record is the one that went
C26_Witness ==
    /\ imp.pc \in {"loop", "done"}
    /\ imp.options.mode = "merge"
    /\ imp.options.duplicateStrategy = "replace"
    /\ imp.i = 2
    /\ Len(imp.existing) = 2
    /\ imp.existing[2].filename = imp.bundle.images[1].filename
    /\ imp.existing[1].original_filename = imp.bundle.images[1].original_filename
    /\ CheckDuplicate(imp.bundle.images[1], imp.existing) = 2
    /\ imp.existing[2].id \notin DOMAIN mapping
    /\ imp.existing[1].id \in DOMAIN mapping

----------------------------------------------------------------------------
(* JsonStorage calls that overlap in time: each await is a point where
   another call may run, and what a call has read it keeps until it writes. *)

RaceSession == 1

NewCall(op, id, path) ==
    [op |-> op, id |-> id, pc |-> "start", path |-> path, images |-> <<>>, map |-> <<>>]

\* position of the record of the id in a list of records, 0 when there is none
IndexOfId(images, id) ==
    FindFirst({k \in 1..Len(images) : images[k].id = id})

\* the record createImage builds for the upload that races
RaceImage(id) == [id |-> id] @@ NewImageData(SeedC, RaceSession, C_PNG, Importer)

\* GET: the file is found at a location other than the stored path, and the
\* handler calls updateImage with that location
StartUpdate(id) ==
    /\ Len(calls) < MaxCalls
    /\ GetImage(Store, id) # <<>>
    /\ LET candidates == Candidates(GetImage(Store, id)[1])
           hits == {k \in 1..Len(candidates) : Exists(files, candidates[k])}
       IN /\ hits # {}
          /\ 1 \notin hits
          /\ calls' = Append(calls, NewCall("update", id, candidates[FirstUsable(hits)]))
    /\ UNCHANGED <<storageVars, importVars, exportVars, heal>>

\* updateImage: getImageMapping and readMetadata
UpdateRead(c) ==
    /\ calls[c].op = "update" /\ calls[c].pc = "start"
    /\ LET id == calls[c].id
           images == IF id \in DOMAIN mapping THEN ReadMetadata(Store, mapping[id]) ELSE <<>>
       IN calls' = [calls EXCEPT ![c].images = images,
                                 ![c].pc = IF IndexOfId(images, id) = 0 THEN "thrown"
                                           ELSE "write"]
    /\ UNCHANGED <<storageVars, importVars, exportVars, heal>>

\* updateImage: the record is merged into what was read, and that is written
UpdateWrite(c) ==
    /\ calls[c].op = "update" /\ calls[c].pc = "write"
    /\ LET images == calls[c].images
           k == IndexOfId(images, calls[c].id)
       IN metadata' = (RaceSession :> [images EXCEPT ![k].file_path = calls[c].path])
                         @@ metadata
    /\ calls' = [calls EXCEPT ![c].pc = "done"]
    /\ UNCHANGED <<mapping, sessions, files, nextId, nextSession,
                   importVars, exportVars, heal>>

\* an upload or an import calls createImage: the id is drawn
StartCreate ==
    /\ Len(calls) < MaxCalls
    /\ nextId <= MaxIds
    /\ calls' = Append(calls, NewCall("create", nextId, AbsoluteFilePath(RaceSession, C_PNG)))
    /\ nextId' = nextId + 1
    /\ files' = files \cup {AbsoluteFilePath(RaceSession, C_PNG)}
    /\ UNCHANGED <<metadata, mapping, sessions, nextSession, importVars, exportVars, heal>>

\* createImage: readMetadata, and the new record is put into what was read
CreateRead(c) ==
    /\ calls[c].op = "create" /\ calls[c].pc = "start"
    /\ calls' = [calls EXCEPT
                    ![c].images = Append(ReadMetadata(Store, RaceSession),
                                         RaceImage(calls[c].id)),
                    ![c].pc = "write"]
    /\ UNCHANGED <<storageVars, importVars, exportVars, heal>>

\* createImage: writeMetadata
CreateWrite(c) ==
    /\ calls[c].op = "create" /\ calls[c].pc = "write"
    /\ metadata' = (RaceSession :> calls[c].images) @@ metadata
    /\ calls' = [calls EXCEPT ![c].pc = "map"]
    /\ UNCHANGED <<mapping, sessions, files, nextId, nextSession,
                   importVars, exportVars, heal>>

\* createImage: getImageMapping and saveImageMapping
CreateMap(c) ==
    /\ calls[c].op = "create" /\ calls[c].pc = "map"
    /\ mapping' = (calls[c].id :> RaceSession) @@ mapping
    /\ calls' = [calls EXCEPT ![c].pc = "count"]
    /\ UNCHANGED <<metadata, sessions, files, nextId, nextSession,
                   importVars, exportVars, heal>>

\* createImage and deleteImage: image_count is the size of what the call holds
WriteCount(c) ==
    /\ calls[c].op \in {"create", "delete"} /\ calls[c].pc = "count"
    /\ SetStore(UpdateSessionCount(Store, RaceSession, Len(calls[c].images)))
    /\ calls' = [calls EXCEPT ![c].pc = "done"]
    /\ UNCHANGED <<importVars, exportVars, heal>>

\* a DELETE request calls deleteImage
StartDelete(id) ==
    /\ Len(calls) < MaxCalls
    /\ id \in DOMAIN mapping
    /\ calls' = Append(calls, NewCall("delete", id, <<>>))
    /\ UNCHANGED <<storageVars, importVars, exportVars, heal>>

\* deleteImage: getImageMapping and readMetadata
DeleteRead(c) ==
    /\ calls[c].op = "delete" /\ calls[c].pc = "start"
    /\ LET id == calls[c].id
           images == IF id \in DOMAIN mapping THEN ReadMetadata(Store, mapping[id]) ELSE <<>>
       IN calls' = [calls EXCEPT ![c].images = images, ![c].map = mapping,
                                 ![c].pc = IF IndexOfId(images, id) = 0 THEN "thrown"
                                           ELSE "write"]
    /\ UNCHANGED <<storageVars, importVars, exportVars, heal>>

\* deleteImage: unlink, the record is taken out of what was read, writeMetadata
DeleteWrite(c) ==
    /\ calls[c].op = "delete" /\ calls[c].pc = "write"
    /\ LET images == calls[c].images
           image == images[IndexOfId(images, calls[c].id)]
           kept == SelectSeq(images, LAMBDA r : r.id # calls[c].id)
       IN /\ files' = files \ {Resolve(image.file_path)}
          /\ metadata' = (RaceSession :> kept) @@ metadata
          /\ calls' = [calls EXCEPT ![c].images = kept, ![c].pc = "map"]
    /\ UNCHANGED <<mapping, sessions, nextId, nextSession, importVars, exportVars, heal>>

\* deleteImage: the id is taken out of the mapping read at the start, saveImageMapping
DeleteMap(c) ==
    /\ calls[c].op = "delete" /\ calls[c].pc = "map"
    /\ mapping' = [i \in (DOMAIN calls[c].map) \ {calls[c].id} |-> calls[c].map[i]]
    /\ calls' = [calls EXCEPT ![c].pc = "count"]
    /\ UNCHANGED <<metadata, sessions, files, nextId, nextSession,
                   importVars, exportVars, heal>>

\* one or two records whose stored path is another installation's, their
\* files at the canonical location
RaceInit ==
    /\ \E n \in 1..Len(HealSeeds) :
          LET path(k) == [root |-> "old", session |-> RaceSession, dir |-> "images",
                          file |-> HealSeeds[k].filename]
              st == HealSeeded(EmptyStore, RaceSession, <<path(1), path(2)>>, n)
          IN InitStore([st EXCEPT !.files =
                           {AbsoluteFilePath(RaceSession, HealSeeds[k].filename) : k \in 1..n}])
    /\ imp = Idle
    /\ result = NoResult
    /\ ExportIdle
    /\ heal = NoHeal
    /\ calls = <<>>

RaceNext ==
    \/ \E id \in 1..Len(HealSeeds) : StartUpdate(id)
    \/ StartCreate
    \/ \E id \in 1..MaxIds : StartDelete(id)
    \/ \E c \in DOMAIN calls : UpdateRead(c)
    \/ \E c \in DOMAIN calls : UpdateWrite(c)
    \/ \E c \in DOMAIN calls : CreateRead(c)
    \/ \E c \in DOMAIN calls : CreateWrite(c)
    \/ \E c \in DOMAIN calls : CreateMap(c)
    \/ \E c \in DOMAIN calls : WriteCount(c)
    \/ \E c \in DOMAIN calls : DeleteRead(c)
    \/ \E c \in DOMAIN calls : DeleteWrite(c)
    \/ \E c \in DOMAIN calls : DeleteMap(c)

RaceSpec == RaceInit /\ [][RaceNext]_vars

\* every call has returned or thrown
CallsSettled == calls # <<>> /\ \A c \in DOMAIN calls : calls[c].pc \in {"done", "thrown"}

\* C27: once a healing updateImage and the calls of the same session that
\* ran beside it have all returned, the session holds every record a
\* createImage made and none a deleteImage removed, and image_count is the
\* number of its records.
C27_OverlappingCallsBothTakeEffect ==
    (CallsSettled /\ \E u \in DOMAIN calls : calls[u].op = "update" /\ calls[u].pc = "done") =>
        LET images == ReadMetadata(Store, RaceSession) IN
        /\ \A c \in DOMAIN calls :
              (calls[c].op = "create" /\ calls[c].pc = "done")
                 => IndexOfId(images, calls[c].id) # 0
        /\ \A c \in DOMAIN calls :
              (calls[c].op = "delete" /\ calls[c].pc = "done")
                 => IndexOfId(images, calls[c].id) = 0
        /\ GetSession(Store, RaceSession).image_count = Len(images)

----------------------------------------------------------------------------
(* 'replace' and the record it deletes. *)

\* C28: a loop iteration of a merge import that deletes an existing record
\* persists the incoming entry in the same iteration, and a finished import
\* leaves the session with at least the records it had.
C28_ReplaceDeletesOnlyWhenPersisted ==
    /\ [][(imp.pc = "loop" /\ imp'.pc = "loop"
           /\ \E id \in DOMAIN mapping : id \notin DOMAIN mapping')
            => imp'.imported = imp.imported + 1]_vars
    /\ []((imp.pc = "done" /\ result.success /\ imp.options.mode = "merge") =>
            Len(ReadMetadata(Store, imp.sessionId)) >= Len(imp.pre))

----------------------------------------------------------------------------
(* A second export of the same session and user. *)

\* the request is over and, while a teardown timer of the progress stream is
\* pending, the user posts another export: a new handler run, with its own
\* metrics and archiver, under the same progress key
NextRequest ==
    /\ exp.pc = "done"
    /\ sse.timers > 0
    /\ exp' = [NoExport EXCEPT !.sizes = exp.sizes, !.continueOnError = exp.continueOnError]
    /\ procs' = <<>>
    /\ metrics' = NoMetrics
    /\ archive' = NoArchive
    /\ UNCHANGED <<progress, sse>>
    /\ OtherVarsUnchanged

RepeatExportNext ==
    \/ ExportNext
    \/ NextRequest

\* sessions of at most one image
RepeatExportInit == ExportInit /\ Len(exp.sizes) <= 1

RepeatExportSpec == RepeatExportInit /\ [][RepeatExportNext]_vars

\* C29: a teardown timer that fires while the store holds a non-terminal
\* entry (the progress of a newer export under the same key) leaves that
\* entry in the store.
C29_TeardownSparesNewExport ==
    [][(sse'.timers = sse.timers - 1 /\ progress.present /\ progress.status \notin Terminal)
          => progress' = progress]_vars


\* C30: on one progress-stream connection controller.close() never runs on a
\* controller that is closed already, and the poll, which is what enqueues,
\* is armed only while the controller is open.
C30_ClosedOnceNoEnqueueAfter ==
    /\ sse.closeErrors = 0
    /\ sse.interval => sse.open
====
